---- MODULE Spec2Model ----
(***************************************************************************)
(* notice-bridge-core: the notification history view (filter engine and   *)
(* CSV export) and the compose form (validation gate, drafts), as state   *)
(* machines.                                                               *)
(*                                                                         *)
(* Conventions.  A JavaScript string is a sequence of one-character        *)
(* strings.  An optional value (x?: T, T | undefined) is a sequence of     *)
(* length 0 (absent) or 1 (present).  A Date is its time value in          *)
(* milliseconds, counted from 2024-01-01T00:00:00.000Z (OriginDay) so that *)
(* it fits 32-bit integers; calendar fields are taken in UTC.             *)
(***************************************************************************)
EXTENDS Integers, Sequences, FiniteSets, TLC

\* ------------------------------------------------------------------ bounds
\* Longest notification list drawn for the history view.
MaxNotifs == 2
\* Most criteria of the history filter away from their defaults at once.
MaxActiveFilters == 2
\* Longest recipient list and longest response list of an exported notification.
MaxRecipients == 2
MaxResponses == 2
\* Longest field value drawn for escapeCSV.
MaxFieldLen == 3
\* Successful draft saves, same-millisecond clock readings and draft
\* deletions explored in the drafts specifications.
MaxSaves == 11
MaxCollisions == 1
MaxDeletes == 1
MaxPersistSaves == 1
MaxAttachments == 1

\* ----------------------------------------------------------------- strings
None == <<>>
Some(x) == <<x>>

UpperCase == <<"A","B","C","D","E","F","G","H","I","J","K","L","M",
               "N","O","P","Q","R","S","T","U","V","W","X","Y","Z">>
LowerCase == <<"a","b","c","d","e","f","g","h","i","j","k","l","m",
               "n","o","p","q","r","s","t","u","v","w","x","y","z">>

toLowerChar(c) ==
  IF \E i \in 1..Len(UpperCase) : UpperCase[i] = c
  THEN LowerCase[CHOOSE i \in 1..Len(UpperCase) : UpperCase[i] = c]
  ELSE c

toLowerCase(s) == [i \in 1..Len(s) |-> toLowerChar(s[i])]

\* String.prototype.includes: q occurs in s as a contiguous run.
includes(s, q) ==
  \E i \in 0..(Len(s) - Len(q)) : SubSeq(s, i + 1, i + Len(q)) = q

\* Array.prototype.includes
arrayIncludes(arr, x) == \E i \in 1..Len(arr) : arr[i] = x

\* ------------------------------------------------------------------- dates
DayMs == 24 * 60 * 60 * 1000
\* Days from 1970-01-01 to 2024-01-01: 54 years, 13 of them leap years.
OriginDay == 54 * 365 + 13

startOfDay(d) == d - (d % DayMs)
endOfDay(d) == startOfDay(d) + DayMs - 1
isBefore(a, b) == a < b
isAfter(a, b) == a > b

\* ------------------------------------------------- compose form: state
VARIABLES
  variant,                 \* "basic" (ComposeNotification.tsx) or "scheduled"
  mounted,                 \* the load-drafts effect has run
  crashed,                 \* a render threw: the component is gone
  title,
  channels,
  channelMessages,
  requiresAcknowledgement,
  selectedRecipients,
  isSendingTest,
  testTimers,              \* history: test sends waiting on their timer
  activeTab,               \* activeTab of ChannelMessageEditors
  drafts,                  \* a JavaScript value: normally an array of drafts
  deliveryType,
  scheduledDate,
  scheduledTime,
  storage,                 \* localStorage item "notification_drafts"
  cNow,                    \* the clock as last read by Date.now()
  nextSeq,                 \* history: number of the next successful save
  collisions,              \* history: saves that read the same millisecond
  deletes,                 \* history: number of deletions so far
  cToast,                  \* title of the toast raised by the last handler
  onSendCalls,             \* calls of onSend made by the last handler
  threw                    \* the last handler ended in an uncaught exception

fieldVars == <<title, channels, channelMessages, requiresAcknowledgement,
               selectedRecipients, deliveryType, scheduledDate, scheduledTime>>

composeVars == <<variant, mounted, crashed, title, channels, channelMessages,
                 requiresAcknowledgement, selectedRecipients, isSendingTest,
                 testTimers, activeTab,
                 drafts, deliveryType, scheduledDate, scheduledTime, storage,
                 cNow, nextSeq, collisions, deletes, cToast, onSendCalls, threw>>

\* ---------------------------------------------------- a CSV field on its own
VARIABLES
  escValue,                \* a field value
  escOut                   \* escapeCSV(escValue), once computed

escVars == <<escValue, escOut>>

\* ------------------------------------------------------------ history view
VARIABLES
  notifications,          \* useState(mockNotifications), never set again
  searchQuery,
  statusFilter,
  channelFilters,
  ackFilter,
  dateFrom,
  dateTo,
  hNow,                   \* the clock as read (new Date()) by the last render
  filteredNotifications,  \* the useMemo value of the last render
  download,               \* the file last offered to the browser, if any
  hToast,                 \* title of the last toast of the history view
  selectedNotification,   \* optional: the notification the detail modal shows
  isModalOpen

histVars == <<notifications, searchQuery, statusFilter, channelFilters,
              ackFilter, dateFrom, dateTo, hNow, filteredNotifications,
              download, hToast, selectedNotification, isModalOpen>>

\* ------------------------------------------------------ recipient selector
VARIABLES
  employees,              \* a JavaScript value: the directory as loaded
  isLoading,
  search,
  roleFilter,
  selectorStatusFilter,   \* statusFilter of RecipientSelector
  fetchPc,                \* position of fetchEmployees: "start", "fetching",
                          \* "reading" (awaiting response.json()) or "done"
  fetchResponse,          \* what the request settled with, once it has
  fetchRequests           \* history: number of requests issued

dirVars == <<employees, isLoading, search, roleFilter, selectorStatusFilter,
             fetchPc, fetchResponse, fetchRequests>>

vars == <<histVars, composeVars, escVars, dirVars>>
notHist == <<composeVars, escVars, dirVars>>
notCompose == <<histVars, escVars, dirVars>>
notEsc == <<histVars, composeVars, dirVars>>
notDir == <<histVars, composeVars, escVars>>

Notification(id, ttl, msg, chans, rcpts, reqAck, dl, resps, st, at, ackBy) ==
  [id |-> id, title |-> ttl, message |-> msg, channels |-> chans,
   recipients |-> rcpts, requiresAcknowledgement |-> reqAck,
   deadline |-> dl, acknowledgementResponses |-> resps,
   status |-> st, sentAt |-> at, acknowledgedBy |-> ackBy]

Criteria(q, st, ch, ack, from, to) ==
  [searchQuery |-> q, statusFilter |-> st, channelFilters |-> ch,
   ackFilter |-> ack, dateFrom |-> from, dateTo |-> to]

DefaultCriteria == Criteria(<<>>, "all", <<>>, "all", None, None)

CurrentCriteria ==
  Criteria(searchQuery, statusFilter, channelFilters, ackFilter, dateFrom, dateTo)

ackCountOf(n) ==
  IF n.acknowledgedBy = None THEN 0 ELSE Len(n.acknowledgedBy[1])

MatchesSearchCaseSensitive(n, c) ==
  c.searchQuery # <<>> =>
    \/ includes(toLowerCase(n.title), c.searchQuery)
    \/ includes(toLowerCase(n.message), c.searchQuery)

MatchesSearch(n, c) ==
  c.searchQuery # <<>> =>
    LET query == toLowerCase(c.searchQuery)
    IN  \/ includes(toLowerCase(n.title), query)
        \/ includes(toLowerCase(n.message), query)

MatchesStatusLoose(n, c) ==
  ~(c.statusFilter # "all" /\ n.status # c.statusFilter /\ n.status # "failed")

MatchesStatusBug(n, c) == n.status = c.statusFilter

MatchesStatus(n, c) ==
  ~(c.statusFilter # "all" /\ n.status # c.statusFilter)

MatchesChannelsAll(n, c) ==
  Len(c.channelFilters) > 0 =>
    \A i \in 1..Len(c.channelFilters) :
      arrayIncludes(n.channels, c.channelFilters[i])

MatchesChannels(n, c) ==
  Len(c.channelFilters) > 0 =>
    \E i \in 1..Len(c.channelFilters) :
      arrayIncludes(n.channels, c.channelFilters[i])

MatchesAckCompleteAtLeast(n, c, now) ==
  c.ackFilter # "all" =>
    LET ackCount == ackCountOf(n)
        totalRecipients == Len(n.recipients)
        isOverdue == /\ n.deadline # None
                     /\ now > n.deadline[1]
                     /\ ackCount < totalRecipients
    IN  CASE c.ackFilter = "required" -> n.requiresAcknowledgement
          [] c.ackFilter = "not-required" -> ~n.requiresAcknowledgement
          [] c.ackFilter = "complete" ->
               n.requiresAcknowledgement /\ ackCount >= totalRecipients
          [] c.ackFilter = "pending" ->
               n.requiresAcknowledgement /\ ackCount # totalRecipients
          [] c.ackFilter = "overdue" -> isOverdue
          [] OTHER -> TRUE

MatchesAckOverdueRequired(n, c, now) ==
  c.ackFilter # "all" =>
    LET ackCount == ackCountOf(n)
        totalRecipients == Len(n.recipients)
        isComplete == ackCount = totalRecipients
        isOverdue == /\ n.deadline # None
                     /\ now > n.deadline[1]
                     /\ ackCount < totalRecipients
    IN  CASE c.ackFilter = "required" -> n.requiresAcknowledgement
          [] c.ackFilter = "not-required" -> ~n.requiresAcknowledgement
          [] c.ackFilter = "complete" -> n.requiresAcknowledgement /\ isComplete
          [] c.ackFilter = "pending" -> n.requiresAcknowledgement /\ ~isComplete
          [] c.ackFilter = "overdue" -> n.requiresAcknowledgement /\ isOverdue
          [] OTHER -> TRUE

MatchesAckRequiredHasDeadline(n, c, now) ==
  c.ackFilter # "all" =>
    LET ackCount == ackCountOf(n)
        totalRecipients == Len(n.recipients)
        isComplete == ackCount = totalRecipients
        isOverdue == /\ n.deadline # None
                     /\ now > n.deadline[1]
                     /\ ackCount < totalRecipients
    IN  CASE c.ackFilter = "required" -> n.deadline # None
          [] c.ackFilter = "not-required" -> n.deadline = None
          [] c.ackFilter = "complete" -> n.requiresAcknowledgement /\ isComplete
          [] c.ackFilter = "pending" -> n.requiresAcknowledgement /\ ~isComplete
          [] c.ackFilter = "overdue" -> isOverdue
          [] OTHER -> TRUE

MatchesAck(n, c, now) ==
  c.ackFilter # "all" =>
    LET ackCount == ackCountOf(n)
        totalRecipients == Len(n.recipients)
        isComplete == ackCount = totalRecipients
        isOverdue == /\ n.deadline # None
                     /\ now > n.deadline[1]
                     /\ ackCount < totalRecipients
    IN  CASE c.ackFilter = "required" -> n.requiresAcknowledgement
          [] c.ackFilter = "not-required" -> ~n.requiresAcknowledgement
          [] c.ackFilter = "complete" -> n.requiresAcknowledgement /\ isComplete
          [] c.ackFilter = "pending" -> n.requiresAcknowledgement /\ ~isComplete
          [] c.ackFilter = "overdue" -> isOverdue
          [] OTHER -> TRUE

MatchesDatesToStartOfDay(n, c) ==
  /\ ~(c.dateFrom # None /\ isBefore(n.sentAt, startOfDay(c.dateFrom[1])))
  /\ ~(c.dateTo # None /\ isAfter(n.sentAt, startOfDay(c.dateTo[1])))

MatchesDates(n, c) ==
  /\ ~(c.dateFrom # None /\ isBefore(n.sentAt, startOfDay(c.dateFrom[1])))
  /\ ~(c.dateTo # None /\ isAfter(n.sentAt, endOfDay(c.dateTo[1])))

\* The predicate of notifications.filter(...)
Keeps(n, c, now) ==
  /\ MatchesSearch(n, c)
  /\ MatchesStatus(n, c)
  /\ MatchesChannels(n, c)
  /\ MatchesAck(n, c, now)
  /\ MatchesDates(n, c)

FilterNotificationsNewestFirst(list, c, now) ==
  LET kept == SelectSeq(list, LAMBDA n : Keeps(n, c, now))
  IN  [i \in 1..Len(kept) |-> kept[Len(kept) + 1 - i]]

FilterNotifications(list, c, now) ==
  SelectSeq(list, LAMBDA n : Keeps(n, c, now))

\* -- inputs of the history view
Day1 == 2 * DayMs                       \* a calendar day, 00:00:00.000
Clock1 == Day1 + DayMs + 12 * 60 * 60 * 1000
Clock2 == Clock1 + 60 * 60 * 1000
PastDeadline == Clock1 - 12 * 60 * 60 * 1000
MidDeadline == Clock1 + 30 * 60 * 1000

Alice == <<"A","l">>
Bob == <<"B","o">>

FilterNotifs ==
  { Notification("1", <<"T","e","a","m">>, <<"D","o","n","'","t">>,
                 <<"email","portal">>, <<Alice, Bob>>, TRUE,
                 Some(MidDeadline), <<>>, "sent", Day1, Some(<<Alice>>)),
    Notification("2", <<"S","y","s">>, <<"t","h","e">>,
                 <<"email","sms","portal">>, <<Alice>>, FALSE,
                 None, <<>>, "sent", Day1 - 1, None),
    Notification("3", <<"P","o","l">>, <<"P","l","s">>,
                 <<"portal">>, <<Alice, Bob>>, TRUE,
                 Some(PastDeadline), <<>>, "pending", Day1 + DayMs - 1,
                 Some(<<Alice, Bob>>)),
    Notification("4", <<"A","l","l">>, <<"x">>,
                 <<"sms">>, <<<<"A","l","l">>>>, TRUE,
                 Some(PastDeadline), <<>>, "failed", Day1 + DayMs,
                 Some(<<<<"1">>, <<"2">>, <<"3">>>>)),
    Notification("5", <<"H","o","l">>, <<"q","4">>,
                 <<"email">>, <<Alice, Bob>>, FALSE,
                 Some(PastDeadline), <<>>, "sent", Day1 + 1,
                 Some(<<Bob>>)) }

SeqsUpTo(S, n) == UNION { [1..k -> S] : k \in 0..n }

SearchInputs == { <<>>, <<"t">>, <<"L">> }
StatusInputs == { "all", "sent", "pending", "failed" }
ChannelInputs == { "email", "sms" }
AckInputs == { "all", "required", "not-required", "complete", "pending", "overdue" }
DateInputs == { None, Some(Day1 + 9 * 60 * 60 * 1000) }

HistInit(list) ==
  /\ notifications = list
  /\ searchQuery = <<>>
  /\ statusFilter = "all"
  /\ channelFilters = <<>>
  /\ ackFilter = "all"
  /\ dateFrom = None
  /\ dateTo = None
  /\ hNow = Clock1
  /\ filteredNotifications = FilterNotifications(list, DefaultCriteria, Clock1)
  /\ download = None
  /\ hToast = None
  /\ selectedNotification = None
  /\ isModalOpen = FALSE

ClockInputs == { Clock1, Clock2 }

\* A render after a dependency of the useMemo changed; the filter reads the
\* clock (new Date()) once per render, and the clock never runs backwards.
Rerender(q, st, ch, ack, from, to) ==
  /\ searchQuery' = q
  /\ statusFilter' = st
  /\ channelFilters' = ch
  /\ ackFilter' = ack
  /\ dateFrom' = from
  /\ dateTo' = to
  /\ \E now \in ClockInputs :
       /\ now >= hNow
       /\ hNow' = now
       /\ filteredNotifications' =
            FilterNotifications(notifications, Criteria(q, st, ch, ack, from, to), now)
  /\ UNCHANGED <<notifications, download, hToast, selectedNotification, isModalOpen>>
  /\ UNCHANGED notHist

setSearchQuery(q) ==
  /\ q # searchQuery
  /\ Rerender(q, statusFilter, channelFilters, ackFilter, dateFrom, dateTo)

setStatusFilter(st) ==
  /\ st # statusFilter
  /\ Rerender(searchQuery, st, channelFilters, ackFilter, dateFrom, dateTo)

toggleChannelFilter(channel) ==
  Rerender(searchQuery, statusFilter,
           IF arrayIncludes(channelFilters, channel)
           THEN SelectSeq(channelFilters, LAMBDA c : c # channel)
           ELSE Append(channelFilters, channel),
           ackFilter, dateFrom, dateTo)

setAckFilter(ack) ==
  /\ ack # ackFilter
  /\ Rerender(searchQuery, statusFilter, channelFilters, ack, dateFrom, dateTo)

setDateFrom(d) ==
  Rerender(searchQuery, statusFilter, channelFilters, ackFilter, d, dateTo)

setDateTo(d) ==
  Rerender(searchQuery, statusFilter, channelFilters, ackFilter, dateFrom, d)

clearFilters ==
  Rerender(<<>>, "all", <<>>, "all", None, None)

\* -------------------------------------------------------------- CSV export
Quote == "\""
Comma == ","
Newline == "\n"

Digits == <<"0","1","2","3","4","5","6","7","8","9">>

\* Zero-padded decimal of width w (date-fns addLeadingZeros).
RECURSIVE addLeadingZeros(_, _)
addLeadingZeros(n, w) ==
  IF w = 0 THEN <<>>
  ELSE addLeadingZeros(n \div 10, w - 1) \o <<Digits[(n % 10) + 1]>>

\* The calendar date of a day number (days since 1970-01-01), proleptic
\* Gregorian calendar.
civilFromDays(days) ==
  LET z == days + 719468
      era == z \div 146097
      doe == z - era * 146097
      yoe == (doe - doe \div 1460 + doe \div 36524 - doe \div 146096) \div 365
      doy == doe - (365 * yoe + yoe \div 4 - yoe \div 100)
      mp == (5 * doy + 2) \div 153
      d == doy - (153 * mp + 2) \div 5 + 1
      m == IF mp < 10 THEN mp + 3 ELSE mp - 9
      y == yoe + era * 400 + (IF m <= 2 THEN 1 ELSE 0)
  IN  [year |-> y, month |-> m, day |-> d]

\* format(date, "yyyy-MM-dd HH:mm:ss")
formatDateTime(t) ==
  LET date == civilFromDays(OriginDay + t \div DayMs)
      secs == (t % DayMs) \div 1000
  IN  addLeadingZeros(date.year, 4) \o <<"-">> \o addLeadingZeros(date.month, 2)
        \o <<"-">> \o addLeadingZeros(date.day, 2) \o <<" ">>
        \o addLeadingZeros(secs \div 3600, 2) \o <<":">>
        \o addLeadingZeros((secs \div 60) % 60, 2) \o <<":">>
        \o addLeadingZeros(secs % 60, 2)

\* value.replace(/"/g, '""')
RECURSIVE doubleQuotes(_)
doubleQuotes(value) ==
  IF value = <<>> THEN <<>>
  ELSE (IF Head(value) = Quote THEN <<Quote, Quote>> ELSE <<Head(value)>>)
         \o doubleQuotes(Tail(value))

escapeCSVNoDoubling(value) ==
  IF \/ includes(value, <<Comma>>)
     \/ includes(value, <<Quote>>)
     \/ includes(value, <<Newline>>)
  THEN <<Quote>> \o value \o <<Quote>>
  ELSE value

escapeCSV(value) ==
  IF \/ includes(value, <<Comma>>)
     \/ includes(value, <<Quote>>)
     \/ includes(value, <<Newline>>)
  THEN <<Quote>> \o doubleQuotes(value) \o <<Quote>>
  ELSE value

\* Array.prototype.join
RECURSIVE join(_, _)
join(parts, sep) ==
  IF Len(parts) = 0 THEN <<>>
  ELSE IF Len(parts) = 1 THEN parts[1]
  ELSE parts[1] \o sep \o join(Tail(parts), sep)

\* new Map(responses.map(r => [r.recipientName, r])).get(recipient): a later
\* entry of the same key replaces an earlier one.
\* A lookup that keeps the first response of a name.
responseMapGetFirst(responses, recipient) ==
  LET hits == { i \in 1..Len(responses) : responses[i].recipientName = recipient }
  IN  IF hits = {} THEN None
      ELSE Some(responses[CHOOSE i \in hits : \A j \in hits : i <= j])

\* new Map(responses.map(r => [r.recipientName, r])).get(recipient): a later
\* entry of a key replaces an earlier one.
responseMapGet(responses, recipient) ==
  LET hits == { i \in 1..Len(responses) : responses[i].recipientName = recipient }
  IN  IF hits = {} THEN None
      ELSE Some(responses[CHOOSE i \in hits : \A j \in hits : j <= i])

headers == <<<<"R","e","c","i","p","i","e","n","t">>, <<"S","t","a","t","u","s">>, <<"R","e","s","p","o","n","s","e">>, <<"C","o","m","m","e","n","t","s">>, <<"R","e","s","p","o","n","s","e"," ","T","i","m","e">>>>

Responded == <<"R","e","s","p","o","n","d","e","d">>
Pending == <<"P","e","n","d","i","n","g">>

\* One row per recipient and then one more per response whose name is no
\* recipient's.
csvRowsWithUnmatched(notification) ==
  LET responses == notification.acknowledgementResponses
      listed(name) == arrayIncludes(notification.recipients, name)
      unmatched == SelectSeq(responses, LAMBDA r : ~listed(r.recipientName))
      rowOf(r) == <<r.recipientName, Responded, r.selectedOption,
                    IF r.comment = None THEN <<>> ELSE r.comment[1],
                    formatDateTime(r.respondedAt)>>
  IN  [i \in 1..Len(notification.recipients) |->
        LET recipient == notification.recipients[i]
            response == responseMapGet(responses, recipient)
        IN  IF response # None
            THEN rowOf(response[1])
            ELSE <<recipient, Pending, <<>>, <<>>, <<>>>>]
      \o [i \in 1..Len(unmatched) |-> rowOf(unmatched[i])]

csvRows(notification) ==
  LET responses == notification.acknowledgementResponses
  IN  [i \in 1..Len(notification.recipients) |->
        LET recipient == notification.recipients[i]
            response == responseMapGet(responses, recipient)
        IN  IF response # None
            THEN <<recipient, Responded, response[1].selectedOption,
                   IF response[1].comment = None THEN <<>> ELSE response[1].comment[1],
                   formatDateTime(response[1].respondedAt)>>
            ELSE <<recipient, Pending, <<>>, <<>>, <<>>>>]

csvLineUnescaped(row) == join(row, <<Comma>>)

csvLine(row) == join([i \in 1..Len(row) |-> escapeCSV(row[i])], <<Comma>>)

csvContentOf(notification) ==
  LET rows == csvRows(notification)
  IN  join(<<csvLine(headers)>> \o [i \in 1..Len(rows) |-> csvLine(rows[i])],
           <<Newline>>)

\* The character class without the i flag: lower-case letters and digits only.
isLowerAlphaNum(c) ==
  \/ \E i \in 1..Len(LowerCase) : c = LowerCase[i]
  \/ \E i \in 1..Len(Digits) : c = Digits[i]

\* [a-z0-9] under the i flag (no u flag: a character outside ASCII never
\* folds to an ASCII letter).
isAlphaNum(c) ==
  \/ \E i \in 1..Len(UpperCase) : c = UpperCase[i] \/ c = LowerCase[i]
  \/ \E i \in 1..Len(Digits) : c = Digits[i]

\* title.replace(/[^a-z0-9]/gi, "_") + "_responses.csv"
downloadName(ttl) ==
  [i \in 1..Len(ttl) |-> IF isAlphaNum(ttl[i]) THEN ttl[i] ELSE "_"]
    \o <<"_","r","e","s","p","o","n","s","e","s",".","c","s","v">>

\* The download button of a row is rendered only for a notification that
\* requires acknowledgement.
handleDownloadCSV(i) ==
  /\ i \in 1..Len(filteredNotifications)
  /\ filteredNotifications[i].requiresAcknowledgement
  /\ download' = Some([name |-> downloadName(filteredNotifications[i].title),
                       content |-> csvContentOf(filteredNotifications[i]),
                       notification |-> filteredNotifications[i]])
  /\ hToast' = Some("CSV Downloaded")
  /\ UNCHANGED <<notifications, searchQuery, statusFilter, channelFilters,
                 ackFilter, dateFrom, dateTo, hNow, filteredNotifications,
                 selectedNotification, isModalOpen>>
  /\ UNCHANGED notHist

\* -- reminders: the row of the history table and the detail modal
\* The row: ackCount < totalRecipients.
rowNeedsReminder(n) ==
  n.requiresAcknowledgement /\ ackCountOf(n) < Len(n.recipients)

rowIsOverdue(n, now) ==
  /\ n.deadline # None
  /\ now > n.deadline[1]
  /\ ackCountOf(n) < Len(n.recipients)

acknowledgedRecipients(n) ==
  IF n.acknowledgedBy = None THEN <<>> ELSE n.acknowledgedBy[1]

\* The modal: the recipients whose name is not in acknowledgedBy.
unacknowledgedRecipients(n) ==
  SelectSeq(n.recipients, LAMBDA r : ~arrayIncludes(acknowledgedRecipients(n), r))

modalNeedsReminder(n) ==
  n.requiresAcknowledgement /\ Len(unacknowledgedRecipients(n)) > 0

modalIsOverdue(n, now) ==
  /\ n.deadline # None
  /\ now > n.deadline[1]
  /\ Len(unacknowledgedRecipients(n)) > 0

HistFrame ==
  /\ UNCHANGED <<notifications, searchQuery, statusFilter, channelFilters,
                 ackFilter, dateFrom, dateTo, hNow, filteredNotifications, download>>
  /\ UNCHANGED notHist

handleViewDetails(i) ==
  /\ i \in 1..Len(filteredNotifications)
  /\ selectedNotification' = Some(filteredNotifications[i])
  /\ isModalOpen' = TRUE
  /\ UNCHANGED hToast
  /\ HistFrame

onOpenChange(open) ==
  /\ isModalOpen
  /\ isModalOpen' = open
  /\ UNCHANGED <<hToast, selectedNotification>>
  /\ HistFrame

\* The row's reminder button, rendered when the row needs a reminder.
rowSendReminder(i) ==
  /\ i \in 1..Len(filteredNotifications)
  /\ rowNeedsReminder(filteredNotifications[i])
  /\ hToast' = Some("Reminder Sent")
  /\ UNCHANGED <<selectedNotification, isModalOpen>>
  /\ HistFrame

\* The modal's reminder button: onSendReminder(notification), then
\* onOpenChange(false).
modalSendReminder ==
  /\ isModalOpen
  /\ selectedNotification # None
  /\ modalNeedsReminder(selectedNotification[1])
  /\ hToast' = Some("Reminder Sent")
  /\ isModalOpen' = FALSE
  /\ UNCHANGED selectedNotification
  /\ HistFrame

\* ------------------------------------------------------------ compose form
initialMessages ==
  [email |-> [content |-> <<>>, attachments |-> <<>>],
   portal |-> [content |-> <<>>, attachments |-> <<>>],
   sms |-> [content |-> <<>>]]

DefaultTime == <<"0","9",":","0","0">>

\* -- JavaScript values and JSON text
JsArray(items) == [type |-> "array", items |-> items]
JsOther(type) == [type |-> type, items |-> <<>>]

JSONstringify(value) == [kind |-> "json", value |-> value]

\* JSON.parse: the value, or a SyntaxError for text that is not JSON.
JSONparse(text) ==
  IF text.kind = "json"
  THEN [ok |-> TRUE, value |-> text.value]
  ELSE [ok |-> FALSE, value |-> JsOther("undefined")]

isSpace(c) == c \in {" ", "\t", Newline}

RECURSIVE trimStart(_)
trimStart(s) ==
  IF s # <<>> /\ isSpace(Head(s)) THEN trimStart(Tail(s)) ELSE s

RECURSIVE trimEnd(_)
trimEnd(s) ==
  IF s # <<>> /\ isSpace(s[Len(s)]) THEN trimEnd(SubSeq(s, 1, Len(s) - 1)) ELSE s

trim(s) == trimEnd(trimStart(s))

RECURSIVE toDecimal(_)
toDecimal(n) ==
  IF n < 10 THEN <<Digits[n + 1]>>
  ELSE toDecimal(n \div 10) \o <<Digits[(n % 10) + 1]>>

\* Date.now().toString(): the decimal digits of the epoch milliseconds,
\* OriginDay * DayMs + t, computed in two halves (DayMs = 864 * 10^5).
epochMsToString(t) ==
  toDecimal(OriginDay * 864 + t \div 100000) \o addLeadingZeros(t % 100000, 5)

\* Date.prototype.toISOString
toISOString(t) ==
  LET date == civilFromDays(OriginDay + t \div DayMs)
      ms == t % DayMs
      secs == ms \div 1000
  IN  addLeadingZeros(date.year, 4) \o <<"-">> \o addLeadingZeros(date.month, 2)
        \o <<"-">> \o addLeadingZeros(date.day, 2) \o <<"T">>
        \o addLeadingZeros(secs \div 3600, 2) \o <<":">>
        \o addLeadingZeros((secs \div 60) % 60, 2) \o <<":">>
        \o addLeadingZeros(secs % 60, 2) \o <<".">>
        \o addLeadingZeros(ms % 1000, 3) \o <<"Z">>

\* The state after construction (the useState initial values).
ComposeInit(v, stored) ==
  /\ variant = v
  /\ mounted = FALSE
  /\ crashed = FALSE
  /\ title = <<>>
  /\ channels = <<>>
  /\ channelMessages = initialMessages
  /\ requiresAcknowledgement = FALSE
  /\ selectedRecipients = <<>>
  /\ isSendingTest = FALSE
  /\ testTimers = 0
  /\ activeTab = "email"
  /\ drafts = JsArray(<<>>)
  /\ deliveryType = "immediate"
  /\ scheduledDate = None
  /\ scheduledTime = DefaultTime
  /\ storage = stored
  /\ cNow = Clock1
  /\ nextSeq = 1
  /\ collisions = 0
  /\ deletes = 0
  /\ cToast = None
  /\ onSendCalls = <<>>
  /\ threw = FALSE

\* -- derived values of a render
RenderThrows(d) ==
  \/ d.type = "null"       \* drafts.length: cannot read properties of null
  \/ d.type = "string"     \* a non-empty string: drafts.map is not a function

contentOf(channel) == channelMessages[channel].content

hasSomeValidMessage ==
  \E i \in 1..Len(channels) :
    IF channels[i] \in {"email", "portal", "sms"}
    THEN Len(trim(contentOf(channels[i]))) > 0
    ELSE FALSE

hasValidMessages ==
  \A i \in 1..Len(channels) :
    IF channels[i] \in {"email", "portal", "sms"}
    THEN Len(trim(contentOf(channels[i]))) > 0
    ELSE FALSE

hasAnyContent ==
  \/ Len(trim(title)) > 0
  \/ Len(trim(channelMessages.email.content)) > 0
  \/ Len(trim(channelMessages.portal.content)) > 0
  \/ Len(trim(channelMessages.sms.content)) > 0

\* Array.prototype.slice(from, to) with 0 <= from <= to
slice(arr, from, to) ==
  SubSeq(arr, from + 1, IF to < Len(arr) THEN to ELSE Len(arr))

Quiet == /\ cToast' = None /\ onSendCalls' = <<>> /\ threw' = FALSE

Live == mounted /\ ~crashed

\* -- the load-drafts effect (useEffect with no dependencies), and the render
\* that follows it
Mount ==
  /\ ~mounted
  /\ mounted' = TRUE
  /\ LET savedDrafts == storage
     IN  IF savedDrafts # None /\ savedDrafts[1].kind # "empty"
         THEN LET parsed == JSONparse(savedDrafts[1])
              IN  drafts' = IF parsed.ok THEN parsed.value ELSE drafts
         ELSE drafts' = drafts
  /\ crashed' = RenderThrows(drafts')
  /\ Quiet
  /\ UNCHANGED <<variant, fieldVars, isSendingTest, testTimers, activeTab, storage, cNow, nextSeq,
                 collisions, deletes>>
  /\ UNCHANGED notCompose

\* -- field edits
EditFrame ==
  /\ Live
  /\ Quiet
  /\ UNCHANGED <<variant, mounted, crashed, isSendingTest, testTimers, activeTab, drafts, storage,
                 cNow, nextSeq, collisions, deletes>>
  /\ UNCHANGED notCompose

setTitle(t) ==
  /\ EditFrame
  /\ title' = t
  /\ UNCHANGED <<channels, channelMessages, requiresAcknowledgement,
                 selectedRecipients, deliveryType, scheduledDate, scheduledTime>>

handleChannelToggle(channel) ==
  /\ EditFrame
  /\ channels' = IF arrayIncludes(channels, channel)
                 THEN SelectSeq(channels, LAMBDA c : c # channel)
                 ELSE Append(channels, channel)
  /\ UNCHANGED <<title, channelMessages, requiresAcknowledgement,
                 selectedRecipients, deliveryType, scheduledDate, scheduledTime>>

\* An editor is rendered only for a selected channel.
updateEmailContent(content) ==
  /\ EditFrame
  /\ arrayIncludes(channels, "email")
  /\ channelMessages' = [channelMessages EXCEPT !.email.content = content]
  /\ UNCHANGED <<title, channels, requiresAcknowledgement,
                 selectedRecipients, deliveryType, scheduledDate, scheduledTime>>

updatePortalContent(content) ==
  /\ EditFrame
  /\ arrayIncludes(channels, "portal")
  /\ channelMessages' = [channelMessages EXCEPT !.portal.content = content]
  /\ UNCHANGED <<title, channels, requiresAcknowledgement,
                 selectedRecipients, deliveryType, scheduledDate, scheduledTime>>

\* -- the tabs of ChannelMessageEditors
\* The active tab taken as it is, valid or not.
validActiveTabStale == activeTab

\* channels.includes(activeTab) ? activeTab : channels[0]
validActiveTab ==
  IF arrayIncludes(channels, activeTab) THEN activeTab
  ELSE IF channels = <<>> THEN "undefined" ELSE channels[1]

\* The editor of a channel is rendered: none without a channel, the single
\* channel's own, or the valid active tab's among several.
editorShown(channel) ==
  IF Len(channels) = 0 THEN FALSE
  ELSE IF Len(channels) = 1 THEN channels[1] = channel
  ELSE validActiveTab = channel /\ arrayIncludes(channels, channel)

shownEditors == { ch \in {"email", "portal", "sms"} : editorShown(ch) }

\* A tab button: rendered for each selected channel when several are.
setActiveTab(tab) ==
  /\ Live
  /\ Len(channels) > 1
  /\ arrayIncludes(channels, tab)
  /\ activeTab' = tab
  /\ Quiet
  /\ UNCHANGED <<variant, mounted, crashed, fieldVars, isSendingTest, testTimers, drafts,
                 storage, cNow, nextSeq, collisions, deletes>>
  /\ UNCHANGED notCompose

\* The file input of the email editor: the chosen files are appended.
handleEmailAttachment(files) ==
  /\ EditFrame
  /\ arrayIncludes(channels, "email")
  /\ channelMessages' =
       [channelMessages EXCEPT !.email.attachments = channelMessages.email.attachments \o files]
  /\ UNCHANGED <<title, channels, requiresAcknowledgement,
                 selectedRecipients, deliveryType, scheduledDate, scheduledTime>>

removeEmailAttachment(index) ==
  /\ EditFrame
  /\ arrayIncludes(channels, "email")
  /\ index \in 0..(Len(channelMessages.email.attachments) - 1)
  /\ channelMessages' =
       [channelMessages EXCEPT !.email.attachments =
          [k \in 1..(Len(@) - 1) |-> IF k <= index THEN @[k] ELSE @[k + 1]]]
  /\ UNCHANGED <<title, channels, requiresAcknowledgement,
                 selectedRecipients, deliveryType, scheduledDate, scheduledTime>>

SMS_CHAR_LIMIT == 160

\* The same handler without its length test.
updateSmsContentUnchecked(content) ==
  /\ EditFrame
  /\ arrayIncludes(channels, "sms")
  /\ channelMessages' = [channelMessages EXCEPT !.sms = [content |-> content]]
  /\ UNCHANGED <<title, channels, requiresAcknowledgement,
                 selectedRecipients, deliveryType, scheduledDate, scheduledTime>>

updateSmsContent(content) ==
  /\ EditFrame
  /\ arrayIncludes(channels, "sms")
  /\ channelMessages' = IF Len(content) <= SMS_CHAR_LIMIT
                        THEN [channelMessages EXCEPT !.sms = [content |-> content]]
                        ELSE channelMessages
  /\ UNCHANGED <<title, channels, requiresAcknowledgement,
                 selectedRecipients, deliveryType, scheduledDate, scheduledTime>>

placeholderTag(placeholder) == <<"{","{">> \o placeholder \o <<"}","}">>

\* The Insert Field menu of an editor; the SMS branch tests the length
\* before it calls updateSmsContent.
insertPlaceholder(channel, placeholder) ==
  LET tag == placeholderTag(placeholder)
  IN  IF channel = "email"
      THEN updateEmailContent(channelMessages.email.content \o tag)
      ELSE IF channel = "portal"
      THEN updatePortalContent(channelMessages.portal.content \o tag)
      ELSE LET newContent == channelMessages.sms.content \o tag
           IN  IF Len(newContent) <= SMS_CHAR_LIMIT
               THEN updateSmsContent(newContent)
               ELSE /\ EditFrame
                    /\ arrayIncludes(channels, "sms")
                    /\ UNCHANGED fieldVars

isSelected(employee) ==
  \E i \in 1..Len(selectedRecipients) : selectedRecipients[i].id = employee.id

toggleEmployee(employee) ==
  /\ EditFrame
  /\ selectedRecipients' =
       IF isSelected(employee)
       THEN SelectSeq(selectedRecipients, LAMBDA r : r.id # employee.id)
       ELSE Append(selectedRecipients, employee)
  /\ UNCHANGED <<title, channels, channelMessages, requiresAcknowledgement,
                 deliveryType, scheduledDate, scheduledTime>>

removeRecipient(employeeId) ==
  /\ EditFrame
  /\ \E i \in 1..Len(selectedRecipients) : selectedRecipients[i].id = employeeId
  /\ selectedRecipients' = SelectSeq(selectedRecipients, LAMBDA r : r.id # employeeId)
  /\ UNCHANGED <<title, channels, channelMessages, requiresAcknowledgement,
                 deliveryType, scheduledDate, scheduledTime>>

\* The switch; the scheduled variant renders it only while email or portal
\* is selected.
setRequiresAcknowledgement(checked) ==
  /\ EditFrame
  /\ variant = "scheduled" =>
       arrayIncludes(channels, "email") \/ arrayIncludes(channels, "portal")
  /\ requiresAcknowledgement' = checked
  /\ UNCHANGED <<title, channels, channelMessages, selectedRecipients,
                 deliveryType, scheduledDate, scheduledTime>>

setDeliveryType(type) ==
  /\ EditFrame
  /\ variant = "scheduled"
  /\ deliveryType' = type
  /\ UNCHANGED <<title, channels, channelMessages, requiresAcknowledgement,
                 selectedRecipients, scheduledDate, scheduledTime>>

\* The date and time pickers are rendered only for a scheduled delivery.
setScheduledDate(date) ==
  /\ EditFrame
  /\ variant = "scheduled" /\ deliveryType = "scheduled"
  /\ scheduledDate' = date
  /\ UNCHANGED <<title, channels, channelMessages, requiresAcknowledgement,
                 selectedRecipients, deliveryType, scheduledTime>>

setScheduledTime(time) ==
  /\ EditFrame
  /\ variant = "scheduled" /\ deliveryType = "scheduled"
  /\ scheduledTime' = time
  /\ UNCHANGED <<title, channels, channelMessages, requiresAcknowledgement,
                 selectedRecipients, deliveryType, scheduledDate>>

\* -- drafts
DraftSliceEnd == 9

UntitledDraft == <<"U","n","t","i","t","l","e","d"," ","D","r","a","f","t">>

newDraftOf(now) ==
  [id |-> epochMsToString(now),
   title |-> IF title # <<>> THEN title ELSE UntitledDraft,
   channels |-> channels,
   channelMessages |->
     [email |-> [content |-> channelMessages.email.content, attachments |-> <<>>],
      portal |-> [content |-> channelMessages.portal.content, attachments |-> <<>>],
      sms |-> [content |-> channelMessages.sms.content]],
   recipients |-> selectedRecipients,
   requiresAcknowledgement |-> requiresAcknowledgement,
   savedAt |-> toISOString(now),
   seq |-> nextSeq]          \* history field: the number of this save

updatedDraftsKeepingOneMore(newDraft, items) ==
  <<newDraft>> \o slice(items, 0, DraftSliceEnd + 1)

updatedDraftsOnSave(newDraft, items) ==
  <<newDraft>> \o slice(items, 0, DraftSliceEnd)

\* now: the clock as read by Date.now() and new Date() while building the
\* draft (taken as one reading).
handleSaveDraft(now) ==
  /\ Live
  /\ now >= cNow
  /\ onSendCalls' = <<>>
  /\ IF ~hasAnyContent
     THEN /\ cToast' = Some("Nothing to Save")
          /\ threw' = FALSE
          /\ UNCHANGED <<drafts, storage, cNow, nextSeq, collisions>>
     ELSE IF drafts.type \notin {"array", "string"}
     THEN \* drafts.slice is not a function
          /\ cToast' = None
          /\ threw' = TRUE
          /\ cNow' = now
          /\ collisions' = IF now = cNow THEN collisions + 1 ELSE collisions
          /\ UNCHANGED <<drafts, storage, nextSeq>>
     ELSE /\ drafts' = JsArray(updatedDraftsOnSave(newDraftOf(now), drafts.items))
          /\ storage' = Some(JSONstringify(drafts'))
          /\ cToast' = Some("Draft Saved")
          /\ threw' = FALSE
          /\ cNow' = now
          /\ collisions' = IF now = cNow THEN collisions + 1 ELSE collisions
          /\ nextSeq' = nextSeq + 1
  /\ UNCHANGED <<variant, mounted, crashed, fieldVars, isSendingTest, testTimers, activeTab, deletes>>
  /\ UNCHANGED notCompose

\* The drafts section is rendered, with one entry per draft, only when
\* drafts.length > 0.
\* The same handler without setSelectedRecipients(draft.recipients).
handleLoadDraftKeepingRecipients(i) ==
  /\ Live
  /\ drafts.type = "array" /\ i \in 1..Len(drafts.items)
  /\ LET draft == drafts.items[i]
     IN  /\ title' = draft.title
         /\ channels' = draft.channels
         /\ channelMessages' = draft.channelMessages
         /\ requiresAcknowledgement' = draft.requiresAcknowledgement
  /\ cToast' = Some("Draft Loaded")
  /\ onSendCalls' = <<>>
  /\ threw' = FALSE
  /\ UNCHANGED <<variant, mounted, crashed, isSendingTest, testTimers, activeTab, drafts, storage,
                 selectedRecipients, deliveryType, scheduledDate, scheduledTime, cNow, nextSeq,
                 collisions, deletes>>
  /\ UNCHANGED notCompose

handleLoadDraft(i) ==
  /\ Live
  /\ drafts.type = "array" /\ i \in 1..Len(drafts.items)
  /\ LET draft == drafts.items[i]
     IN  /\ title' = draft.title
         /\ channels' = draft.channels
         /\ channelMessages' = draft.channelMessages
         /\ selectedRecipients' = draft.recipients
         /\ requiresAcknowledgement' = draft.requiresAcknowledgement
  /\ cToast' = Some("Draft Loaded")
  /\ onSendCalls' = <<>>
  /\ threw' = FALSE
  /\ UNCHANGED <<variant, mounted, crashed, isSendingTest, testTimers, activeTab, drafts, storage,
                 deliveryType, scheduledDate, scheduledTime, cNow, nextSeq,
                 collisions, deletes>>
  /\ UNCHANGED notCompose

handleDeleteDraftInMemoryOnly(i) ==
  /\ Live
  /\ drafts.type = "array" /\ i \in 1..Len(drafts.items)
  /\ LET draftId == drafts.items[i].id
     IN  drafts' = JsArray(SelectSeq(drafts.items, LAMBDA d : d.id # draftId))
  /\ deletes' = deletes + 1
  /\ cToast' = Some("Draft Deleted")
  /\ onSendCalls' = <<>>
  /\ threw' = FALSE
  /\ UNCHANGED <<variant, mounted, crashed, fieldVars, isSendingTest, testTimers, activeTab, storage,
                 cNow, nextSeq, collisions>>
  /\ UNCHANGED notCompose

handleDeleteDraft(i) ==
  /\ Live
  /\ drafts.type = "array" /\ i \in 1..Len(drafts.items)
  /\ LET draftId == drafts.items[i].id
         updatedDrafts == SelectSeq(drafts.items, LAMBDA d : d.id # draftId)
     IN  /\ drafts' = JsArray(updatedDrafts)
         /\ storage' = Some(JSONstringify(drafts'))
  /\ deletes' = deletes + 1
  /\ cToast' = Some("Draft Deleted")
  /\ onSendCalls' = <<>>
  /\ threw' = FALSE
  /\ UNCHANGED <<variant, mounted, crashed, fieldVars, isSendingTest, testTimers, activeTab, cNow,
                 nextSeq, collisions>>
  /\ UNCHANGED notCompose

\* -- test send: handleSendTestEmail, and handleSendTestNotification of the
\* scheduled variant
hasTestContent ==
  IF variant = "basic"
  THEN arrayIncludes(channels, "email") /\ Len(trim(channelMessages.email.content)) > 0
  ELSE Len(channels) > 0 /\ hasValidMessages

\* The test button is disabled without content and while a test is being
\* sent.
testButtonIgnoringSending ==
  hasTestContent

testButtonEnabled ==
  hasTestContent /\ ~isSendingTest

\* The handler up to its await.
handleSendTestEmail ==
  /\ Live
  /\ testButtonEnabled
  /\ IF ~hasTestContent
     THEN /\ cToast' = Some(IF variant = "basic" THEN "No Email Content"
                            ELSE "No Content to Test")
          /\ UNCHANGED <<isSendingTest, testTimers>>
     ELSE /\ cToast' = None
          /\ isSendingTest' = TRUE
          /\ testTimers' = testTimers + 1
  /\ onSendCalls' = <<>>
  /\ threw' = FALSE
  /\ UNCHANGED <<variant, mounted, crashed, fieldVars, activeTab, drafts,
                 storage, cNow, nextSeq, collisions, deletes>>
  /\ UNCHANGED notCompose

\* The handler after its await: a 1500 ms timer has fired.
testSendResumes ==
  /\ Live
  /\ testTimers > 0
  /\ testTimers' = testTimers - 1
  /\ isSendingTest' = FALSE
  /\ cToast' = Some(IF variant = "basic" THEN "Test Email Sent"
                    ELSE "Test Notification Sent")
  /\ onSendCalls' = <<>>
  /\ threw' = FALSE
  /\ UNCHANGED <<variant, mounted, crashed, fieldVars, activeTab, drafts,
                 storage, cNow, nextSeq, collisions, deletes>>
  /\ UNCHANGED notCompose

\* -- submit
channelLabel(ch) ==
  CASE ch = "email" -> <<"[","E","m","a","i","l","]"," ">>
    [] ch = "portal" -> <<"[","P","o","r","t","a","l","]"," ">>
    [] ch = "sms" -> <<"[","S","M","S","]"," ">>
    [] OTHER -> <<>>

combinedMessage ==
  join([i \in 1..Len(channels) |->
          IF channels[i] \in {"email", "portal", "sms"}
          THEN channelLabel(channels[i]) \o contentOf(channels[i])
          ELSE <<>>],
       <<Newline, Newline>>)

recipientNames == [i \in 1..Len(selectedRecipients) |-> selectedRecipients[i].name]

passesRequiredFields ==
  ~(\/ title = <<>>
    \/ Len(channels) = 0
    \/ Len(selectedRecipients) = 0
    \/ ~hasValidMessages)

passesSchedule ==
  ~(variant = "scheduled" /\ deliveryType = "scheduled" /\ scheduledDate = None)

\* String.prototype.split(":")
RECURSIVE splitColon(_)
splitColon(s) ==
  IF \E i \in 1..Len(s) : s[i] = ":"
  THEN LET i == CHOOSE k \in 1..Len(s) :
                  s[k] = ":" /\ \A j \in 1..(k - 1) : s[j] # ":"
       IN  <<SubSeq(s, 1, i - 1)>> \o splitColon(SubSeq(s, i + 1, Len(s)))
  ELSE <<s>>

\* Number(text) is a number (0 for the empty text) and not NaN
isNumber(text) == \A i \in 1..Len(text) : \E d \in 1..10 : text[i] = Digits[d]

\* const [hours, minutes] = scheduledTime.split(":").map(Number) and
\* setHours(hours, minutes): the date stays valid when neither is NaN; a
\* missing minutes part is undefined, which setHours turns into NaN.
isValidDateTime(time) ==
  LET parts == splitColon(time)
  IN  /\ Len(parts) >= 2
      /\ isNumber(parts[1])
      /\ isNumber(parts[2])

\* A failed validation: a destructive toast and an early return.
rejectSubmitClearing(toastTitle) ==
  /\ cToast' = Some(toastTitle)
  /\ onSendCalls' = <<>>
  /\ title' = <<>>
  /\ UNCHANGED <<channels, channelMessages, requiresAcknowledgement,
                 selectedRecipients, deliveryType, scheduledDate, scheduledTime>>

rejectSubmit(toastTitle) ==
  /\ cToast' = Some(toastTitle)
  /\ onSendCalls' = <<>>
  /\ UNCHANGED fieldVars

\* "Reset form" at the end of handleSubmit.
submitReset ==
  /\ title' = <<>>
  /\ channels' = <<>>
  /\ channelMessages' = initialMessages
  /\ requiresAcknowledgement' = FALSE
  /\ selectedRecipients' = <<>>
  /\ IF variant = "scheduled"
     THEN /\ deliveryType' = "immediate"
          /\ scheduledDate' = None
          /\ scheduledTime' = DefaultTime
     ELSE UNCHANGED <<deliveryType, scheduledDate, scheduledTime>>

handleSubmit ==
  /\ Live
  /\ IF ~passesRequiredFields
     THEN rejectSubmit("Missing Information") /\ threw' = FALSE
     ELSE IF ~passesSchedule
     THEN rejectSubmit("Schedule Required") /\ threw' = FALSE
     ELSE /\ onSendCalls' = <<[title |-> title,
                               message |-> combinedMessage,
                               channels |-> channels,
                               recipients |-> recipientNames,
                               requiresAcknowledgement |-> requiresAcknowledgement]>>
          /\ IF /\ variant = "scheduled"
                /\ deliveryType = "scheduled"
                /\ scheduledDate # None
             THEN IF isValidDateTime(scheduledTime)
                  THEN /\ cToast' = Some("Notification Scheduled")
                       /\ threw' = FALSE
                       /\ submitReset
                  ELSE \* format throws RangeError: Invalid time value
                       /\ cToast' = None
                       /\ threw' = TRUE
                       /\ UNCHANGED fieldVars
             ELSE /\ cToast' = Some("Notification Sent")
                  /\ threw' = FALSE
                  /\ submitReset
  /\ UNCHANGED <<variant, mounted, crashed, isSendingTest, testTimers, activeTab, drafts, storage,
                 cNow, nextSeq, collisions, deletes>>
  /\ UNCHANGED notCompose

\* ------------------------------------------------------ recipient selector
\* What fetch settles with: a rejection, or a response with its status and
\* body text.
Rejected == [settled |-> "rejected", ok |-> FALSE, status |-> 0,
             body |-> [kind |-> "empty", value |-> JsOther("undefined")]]

HttpResponse(status, body) ==
  [settled |-> "fulfilled", ok |-> (status >= 200 /\ status <= 299),
   status |-> status, body |-> body]

NoResponse == None

DirInit ==
  /\ employees = JsArray(<<>>)
  /\ isLoading = TRUE
  /\ search = <<>>
  /\ roleFilter = "All"
  /\ selectorStatusFilter = "All"
  /\ fetchPc = "start"
  /\ fetchResponse = NoResponse
  /\ fetchRequests = 0

ArrayIsArray(value) == value.type = "array"

\* The mount effect: fetchEmployees runs up to its first await.
fetchEmployees ==
  /\ fetchPc = "start"
  /\ isLoading' = TRUE
  /\ fetchRequests' = fetchRequests + 1
  /\ fetchPc' = "fetching"
  /\ UNCHANGED <<employees, search, roleFilter, selectorStatusFilter, fetchResponse>>
  /\ UNCHANGED notDir

\* catch and finally of fetchEmployees
fetchFailed ==
  /\ employees' = JsArray(<<>>)
  /\ isLoading' = FALSE
  /\ fetchPc' = "done"

\* The request settles: a rejection goes to catch, a non-success response
\* returns early through finally, a success goes on to await response.json().
fetchSettles(r) ==
  /\ fetchPc = "fetching"
  /\ fetchResponse' = Some(r)
  /\ IF r.settled = "rejected" \/ ~r.ok
     THEN fetchFailed
     ELSE /\ fetchPc' = "reading"
          /\ UNCHANGED <<employees, isLoading>>
  /\ UNCHANGED <<search, roleFilter, selectorStatusFilter, fetchRequests>>
  /\ UNCHANGED notDir

setEmployeesKeepingAnyValue(data) ==
  employees' = data

\* setEmployees(Array.isArray(data) ? data : [])
setEmployeesFrom(data) ==
  employees' = IF ArrayIsArray(data) THEN data ELSE JsArray(<<>>)

\* response.json() settles: a body that is not JSON rejects and goes to catch.
jsonSettles ==
  /\ fetchPc = "reading"
  /\ LET parsed == JSONparse(fetchResponse[1].body)
     IN  IF parsed.ok
         THEN /\ setEmployeesFrom(parsed.value)
              /\ isLoading' = FALSE
              /\ fetchPc' = "done"
         ELSE fetchFailed
  /\ UNCHANGED <<search, roleFilter, selectorStatusFilter, fetchResponse,
                 fetchRequests>>
  /\ UNCHANGED notDir

\* -- the filtered directory and the selection made from it
\* Role and status values are drawn without surrounding blanks, so that
\* trim() returns them as they are.
roleOf(emp) == IF emp.role = None THEN "" ELSE emp.role[1]

statusOf(emp) == IF emp.status = None THEN "active" ELSE emp.status[1]

matchesSelector(emp, q) ==
  /\ \/ q = <<>>
     \/ includes(toLowerCase(emp.name), q)
     \/ includes(toLowerCase(emp.email), q)
  /\ roleFilter = "All" \/ roleOf(emp) = roleFilter
  /\ selectorStatusFilter = "All" \/ statusOf(emp) = selectorStatusFilter

filteredEmployees ==
  LET q == toLowerCase(trim(search))
  IN  SelectSeq(employees.items, LAMBDA emp : matchesSelector(emp, q))

\* newRecipients after the forEach, without the test for an id already there.
pushAllFiltered(newRecipients, list) == newRecipients \o list

\* newRecipients after the forEach over list.
RECURSIVE pushMissing(_, _)
pushMissing(newRecipients, list) ==
  IF list = <<>> THEN newRecipients
  ELSE LET emp == Head(list)
       IN  pushMissing(IF \E i \in 1..Len(newRecipients) : newRecipients[i].id = emp.id
                       THEN newRecipients
                       ELSE Append(newRecipients, emp),
                       Tail(list))

addAllFiltered ==
  /\ EditFrame
  /\ selectedRecipients' = pushMissing(selectedRecipients, filteredEmployees)
  /\ UNCHANGED <<title, channels, channelMessages, requiresAcknowledgement,
                 deliveryType, scheduledDate, scheduledTime>>

SelectorEdit ==
  /\ UNCHANGED <<employees, isLoading, fetchPc, fetchResponse, fetchRequests>>
  /\ UNCHANGED notDir

setSearch(q) ==
  /\ search' = q
  /\ UNCHANGED <<roleFilter, selectorStatusFilter>>
  /\ SelectorEdit

setRoleFilter(role) ==
  /\ roleFilter' = role
  /\ UNCHANGED <<search, selectorStatusFilter>>
  /\ SelectorEdit

setSelectorStatusFilter(st) ==
  /\ selectorStatusFilter' = st
  /\ UNCHANGED <<search, roleFilter>>
  /\ SelectorEdit

\* ========================================================= specifications
HistIdle == HistInit(<<>>)
ComposeIdle == ComposeInit("basic", None)
EscIdle == escValue = <<>> /\ escOut = None
DirIdle == DirInit

\* -- the history filter over drawn notification lists
InitFilter ==
  /\ \E list \in SeqsUpTo(FilterNotifs, MaxNotifs) : HistInit(list)
  /\ ComposeIdle
  /\ EscIdle
  /\ DirIdle

Bit(b) == IF b THEN 1 ELSE 0

ActiveFilters ==
  Bit(searchQuery # <<>>) + Bit(statusFilter # "all") + Bit(channelFilters # <<>>)
    + Bit(ackFilter # "all") + Bit(dateFrom # None) + Bit(dateTo # None)

FewActive == ActiveFilters <= MaxActiveFilters

NextFilter ==
  \/ \E q \in SearchInputs : setSearchQuery(q) /\ FewActive'
  \/ \E st \in StatusInputs : setStatusFilter(st) /\ FewActive'
  \/ \E ch \in ChannelInputs : toggleChannelFilter(ch) /\ FewActive'
  \/ \E ack \in AckInputs : setAckFilter(ack) /\ FewActive'
  \/ \E d \in DateInputs : setDateFrom(d) /\ FewActive'
  \/ \E d \in DateInputs : setDateTo(d) /\ FewActive'
  \/ clearFilters

SpecFilter == InitFilter /\ [][NextFilter]_vars

\* -- the detail modal opened from the rows of the history table
NextReminder ==
  \/ \E ack \in AckInputs : setAckFilter(ack)
  \/ \E i \in 1..Len(filteredNotifications) : handleViewDetails(i)
  \/ onOpenChange(FALSE)
  \/ \E i \in 1..Len(filteredNotifications) : rowSendReminder(i)
  \/ modalSendReminder

SpecReminder == InitFilter /\ [][NextReminder]_vars

\* -- the CSV export of one drawn notification
Response(name, option, comment, at) ==
  [recipientName |-> name, selectedOption |-> option, comment |-> comment,
   respondedAt |-> at]

Carol == <<"C",Comma,Quote>>

CsvNames == { Alice, Bob, Carol }

CsvResponses ==
  { Response(Alice, <<"O","k">>, None, Clock1 - 1),
    Response(Bob, <<"N","o">>, Some(<<"x",Comma,Quote,"y">>), Day1 + 1000),
    Response(Alice, <<"N","o">>, Some(<<>>), Clock2),
    Response(Carol, <<"O","k">>, Some(<<"l",Newline,"m">>), Clock1) }

CsvTitles == { <<"Q","3"," ","&","x">>, <<"o","k">>, <<"é","Z","_","9",".">> }

CsvNotifs ==
  { Notification("1", t, <<"m">>, <<"email">>, recipients, TRUE, None,
                 responses, "sent", Day1, None) :
      t \in CsvTitles,
      recipients \in SeqsUpTo(CsvNames, MaxRecipients),
      responses \in SeqsUpTo(CsvResponses, MaxResponses) }

InitCSV ==
  /\ \E n \in CsvNotifs : HistInit(<<n>>)
  /\ ComposeIdle
  /\ EscIdle
  /\ DirIdle

NextCSV == \E i \in 1..Len(filteredNotifications) : handleDownloadCSV(i)

SpecCSV == InitCSV /\ [][NextCSV]_vars

\* -- escapeCSV over drawn field values
EscAlphabet == { "a", " ", Comma, Quote, Newline }

NeedMoreInfo == <<"N","e","e","d",Comma," ",Quote,"m","o","r","e",Quote," ","i","n","f","o">>

EscInputs == SeqsUpTo(EscAlphabet, MaxFieldLen) \cup { NeedMoreInfo }

InitEscape ==
  /\ escValue \in EscInputs
  /\ escOut = None
  /\ HistIdle
  /\ ComposeIdle
  /\ DirIdle

EscapeField ==
  /\ escOut = None
  /\ escOut' = Some(escapeCSV(escValue))
  /\ UNCHANGED escValue
  /\ UNCHANGED notEsc

NextEscape == EscapeField

SpecEscape == InitEscape /\ [][NextEscape]_vars

\* -- the compose form, both variants; the draft list comes from storage
Employee(id, name) == [id |-> id, name |-> name]
Emp1 == Employee("e1", Alice)
Emp2 == Employee("e2", Bob)
Employees == { Emp1, Emp2 }

StoredDraft ==
  [id |-> epochMsToString(Clock1 - DayMs),
   title |-> <<"T">>,
   channels |-> <<"email">>,
   channelMessages |->
     [email |-> [content |-> <<"m">>, attachments |-> <<>>],
      portal |-> [content |-> <<>>, attachments |-> <<>>],
      sms |-> [content |-> <<>>]],
   recipients |-> <<Emp1>>,
   requiresAcknowledgement |-> TRUE,
   savedAt |-> toISOString(Clock1 - DayMs),
   seq |-> 0]

FormStores == { None, Some(JSONstringify(JsArray(<<StoredDraft>>))) }

TitleInputs == { <<>>, <<" ">>, <<"T">> }
FormChannels == { "email", "sms" }
EmailInputs == { <<>>, <<" ">>, <<"m">> }
SmsInputs == { <<>>, <<"s">> }
\* A time input holds "HH:mm", or "" once it is cleared.
TimeInputs == { DefaultTime, <<>> }
ScheduleDates == { None, Some(Day1 + 7 * DayMs) }

InitForm ==
  /\ \E v \in {"basic", "scheduled"}, stored \in FormStores : ComposeInit(v, stored)
  /\ HistIdle
  /\ EscIdle
  /\ DirIdle

\* Save is pressed on forms without content only: here the draft list is the
\* stored one.
pressSaveEmpty == ~hasAnyContent /\ handleSaveDraft(cNow)

NextForm ==
  \/ Mount
  \/ \E t \in TitleInputs : setTitle(t)
  \/ \E ch \in FormChannels : handleChannelToggle(ch)
  \/ \E c \in EmailInputs : updateEmailContent(c)
  \/ \E c \in SmsInputs : updateSmsContent(c)
  \/ \E e \in Employees : toggleEmployee(e)
  \/ \E b \in BOOLEAN : setRequiresAcknowledgement(b)
  \/ \E t \in {"immediate", "scheduled"} : setDeliveryType(t)
  \/ \E d \in ScheduleDates : setScheduledDate(d)
  \/ \E t \in TimeInputs : setScheduledTime(t)
  \/ pressSaveEmpty
  \/ \E i \in 1..Len(drafts.items) : handleLoadDraft(i)
  \/ \E i \in 1..Len(drafts.items) : handleDeleteDraft(i)
  \/ handleSubmit

SpecForm == InitForm /\ [][NextForm]_vars

\* -- the draft list: many saves of a form whose only edited field is the title
DraftTitles == { <<>>, <<"A">> }

InitDrafts ==
  /\ ComposeInit("basic", None)
  /\ HistIdle
  /\ EscIdle
  /\ DirIdle

pressSave ==
  \E now \in {cNow, cNow + 1} :
    /\ nextSeq <= MaxSaves
    /\ now - Clock1 <= MaxSaves
    /\ now = cNow => collisions < MaxCollisions
    /\ handleSaveDraft(now)

pressDelete ==
  /\ deletes < MaxDeletes
  /\ \E i \in 1..Len(drafts.items) : handleDeleteDraft(i)

NextDrafts ==
  \/ Mount
  \/ \E t \in DraftTitles : setTitle(t)
  \/ pressSave
  \/ pressDelete
  \/ \E i \in 1..Len(drafts.items) : handleLoadDraft(i)
  \/ handleSubmit

SpecDrafts == InitDrafts /\ [][NextDrafts]_vars

\* -- mounting over drawn contents of the stored item
OldDraft ==
  [id |-> epochMsToString(Clock1 - DayMs),
   title |-> <<"A">>,
   channels |-> <<>>,
   channelMessages |-> initialMessages,
   recipients |-> <<>>,
   requiresAcknowledgement |-> FALSE,
   savedAt |-> toISOString(Clock1 - DayMs),
   seq |-> 0]

MountStores ==
  { None,
    Some([kind |-> "empty"]),
    Some([kind |-> "garbage"]),
    Some(JSONstringify(JsOther("null"))),
    Some(JSONstringify(JsOther("number"))),
    Some(JSONstringify(JsOther("string"))),
    Some(JSONstringify(JsOther("object"))),
    Some(JSONstringify(JsArray(<<>>))),
    Some(JSONstringify(JsArray(<<OldDraft>>))) }

InitMount ==
  /\ \E stored \in MountStores : ComposeInit("basic", stored)
  /\ HistIdle
  /\ EscIdle
  /\ DirIdle

SpecMount == InitMount /\ [][NextDrafts]_vars

\* -- the employee directory request of the recipient selector
DirEmployee(id, name, email, role, status) ==
  [id |-> id, name |-> name, email |-> email, role |-> role, status |-> status]

Nurse1 == DirEmployee("e1", Alice, <<"a","@","x">>, Some("Nurse"), Some("active"))
Admin2 == DirEmployee("e2", Bob, <<"b","@","x">>, Some("Admin"), Some("on-leave"))
Temp3 == DirEmployee("e3", <<"C","y">>, <<"c","@","x">>, None, None)

DirBodies ==
  { [kind |-> "garbage", value |-> JsOther("undefined")],
    JSONstringify(JsOther("null")),
    JSONstringify(JsOther("object")),
    JSONstringify(JsOther("string")),
    JSONstringify(JsArray(<<>>)),
    JSONstringify(JsArray(<<Nurse1>>)),
    JSONstringify(JsArray(<<Nurse1, Admin2>>)),
    JSONstringify(JsArray(<<Admin2, Temp3, Nurse1>>)) }

FetchOutcomes ==
  {Rejected} \cup { HttpResponse(st, b) : st \in {200, 404, 500}, b \in DirBodies }

DirSearchInputs == { <<>>, <<"a">>, <<"B"," ">> }
RoleInputs == { "All", "Nurse", "Admin" }
SelectorStatusInputs == { "All", "active", "on-leave" }

InitDirectory ==
  /\ DirInit
  /\ HistIdle
  /\ ComposeIdle
  /\ EscIdle

NextDirectory ==
  \/ fetchEmployees
  \/ \E r \in FetchOutcomes : fetchSettles(r)
  \/ jsonSettles
  \/ \E q \in DirSearchInputs : setSearch(q)
  \/ \E role \in RoleInputs : setRoleFilter(role)
  \/ \E st \in SelectorStatusInputs : setSelectorStatusFilter(st)

SpecDirectory == InitDirectory /\ [][NextDirectory]_vars

\* The effect runs once the component has mounted, and each await resumes
\* once its promise has settled; the request itself is taken to settle.
SpecDirectoryFair ==
  /\ SpecDirectory
  /\ WF_vars(fetchEmployees)
  /\ WF_vars(\E r \in FetchOutcomes : fetchSettles(r))
  /\ WF_vars(jsonSettles)

\* -- the stored draft list: a few saves and deletions among every other
\* operation of the form
InitPersist ==
  /\ \E v \in {"basic", "scheduled"},
        stored \in { None, Some(JSONstringify(JsArray(<<OldDraft>>))) } :
       ComposeInit(v, stored)
  /\ HistIdle
  /\ EscIdle
  /\ DirIdle

pressSaveFew == nextSeq <= MaxPersistSaves /\ pressSave

NextPersist ==
  \/ Mount
  \/ \E t \in DraftTitles : setTitle(t)
  \/ handleChannelToggle("email")
  \/ \E c \in { <<>>, <<"m">> } : updateEmailContent(c)
  \/ toggleEmployee(Emp1)
  \/ pressSaveFew
  \/ \E i \in 1..Len(drafts.items) : handleLoadDraft(i)
  \/ \E i \in 1..Len(drafts.items) : handleDeleteDraft(i)
  \/ handleSubmit
  \/ handleSendTestEmail
  \/ testSendResumes

SpecPersist == InitPersist /\ [][NextPersist]_vars

\* -- test sends among the other operations of the form, with drafts saved
\* during the wait; a timer that has been set fires.
InitTestSend ==
  /\ \E v \in {"basic", "scheduled"} : ComposeInit(v, None)
  /\ HistIdle
  /\ EscIdle
  /\ DirIdle

pressSaveWhileSending == isSendingTest /\ pressSaveFew

NextTestSend ==
  \/ Mount
  \/ \E t \in DraftTitles : setTitle(t)
  \/ handleChannelToggle("email")
  \/ \E c \in { <<>>, <<"m">> } : updateEmailContent(c)
  \/ toggleEmployee(Emp1)
  \/ pressSaveWhileSending
  \/ \E i \in 1..Len(drafts.items) : handleLoadDraft(i)
  \/ \E i \in 1..Len(drafts.items) : handleDeleteDraft(i)
  \/ handleSubmit
  \/ handleSendTestEmail
  \/ testSendResumes

\* -- the recipient selector over a loaded directory, one of them with two
\* entries of the same id
NurseTwin == DirEmployee("e1", <<"A","n">>, <<"n","@","x">>, Some("Nurse"), None)

SelectBodies ==
  { JSONstringify(JsArray(<<Nurse1, Admin2>>)),
    JSONstringify(JsArray(<<Admin2, Temp3, Nurse1>>)),
    JSONstringify(JsArray(<<Nurse1, Admin2, NurseTwin>>)) }

InitSelect ==
  /\ DirInit
  /\ HistIdle
  /\ ComposeIdle
  /\ EscIdle

NextSelect ==
  \/ Mount
  \/ fetchEmployees
  \/ \E b \in SelectBodies : fetchSettles(HttpResponse(200, b))
  \/ jsonSettles
  \/ \E q \in DirSearchInputs : setSearch(q)
  \/ \E role \in RoleInputs : setRoleFilter(role)
  \/ \E st \in SelectorStatusInputs : setSelectorStatusFilter(st)
  \/ \E i \in 1..Len(filteredEmployees) : toggleEmployee(filteredEmployees[i])
  \/ addAllFiltered
  \/ \E i \in 1..Len(selectedRecipients) : removeRecipient(selectedRecipients[i].id)

SpecSelect == InitSelect /\ [][NextSelect]_vars

\* -- a draft saved from an edited form and loaded again
AttachedFiles == { <<"f">> }

attachFew(files) ==
  /\ Len(channelMessages.email.attachments) + Len(files) <= MaxAttachments
  /\ handleEmailAttachment(files)

InitRoundTrip ==
  /\ \E v \in {"basic", "scheduled"} : ComposeInit(v, None)
  /\ HistIdle
  /\ EscIdle
  /\ DirIdle

NextRoundTrip ==
  \/ Mount
  \/ \E t \in DraftTitles : setTitle(t)
  \/ handleChannelToggle("email")
  \/ \E c \in { <<>>, <<"m">> } : updateEmailContent(c)
  \/ \E files \in AttachedFiles : attachFew(files)
  \/ \E k \in 0..(Len(channelMessages.email.attachments) - 1) : removeEmailAttachment(k)
  \/ toggleEmployee(Emp1)
  \/ \E b \in BOOLEAN : setRequiresAcknowledgement(b)
  \/ pressSaveFew
  \/ \E i \in 1..Len(drafts.items) : handleLoadDraft(i)

SpecRoundTrip == InitRoundTrip /\ [][NextRoundTrip]_vars

\* -- channel toggles and tab clicks, with text typed into the email editor
\* while it is the one displayed
TabChannels == { "email", "portal", "sms" }

typeInEmailEditor(content) == editorShown("email") /\ updateEmailContent(content)

NextTabs ==
  \/ Mount
  \/ \E ch \in TabChannels : handleChannelToggle(ch)
  \/ \E tab \in TabChannels : setActiveTab(tab)
  \/ \E c \in { <<>>, <<"m">> } : typeInEmailEditor(c)

SpecTabs == InitRoundTrip /\ [][NextTabs]_vars

\* -- the SMS editor: typed text, inserted fields, drafts saved and loaded
Repeat(c, n) == [i \in 1..n |-> c]

SmsTexts ==
  { <<>>, Repeat("x", SMS_CHAR_LIMIT - 15), Repeat("x", SMS_CHAR_LIMIT),
    Repeat("x", SMS_CHAR_LIMIT + 1) }

SmsFields == { <<"e","m","p","l","o","y","e","e","_","i","d">> }

InitSms ==
  /\ \E v \in {"basic", "scheduled"} : ComposeInit(v, None)
  /\ HistIdle
  /\ EscIdle
  /\ DirIdle

NextSms ==
  \/ Mount
  \/ handleChannelToggle("sms")
  \/ \E c \in SmsTexts : updateSmsContent(c)
  \/ \E f \in SmsFields : insertPlaceholder("sms", f)
  \/ pressSaveFew
  \/ \E i \in 1..Len(drafts.items) : handleLoadDraft(i)

SpecSms == InitSms /\ [][NextSms]_vars

SpecTestSend == InitTestSend /\ [][NextTestSend]_vars /\ WF_vars(testSendResumes)

\* ================================================================= claims

\* ---- C1
\* History filter, identity: whenever every criterion is at its default the
\* filtered list is the input list, element for element, in the same order.
C1_Identity ==
  CurrentCriteria = DefaultCriteria => filteredNotifications = notifications

\* The criteria are back at their defaults after a later render, over a list
\* of two different notifications.
C1_Witness ==
  /\ CurrentCriteria = DefaultCriteria
  /\ hNow = Clock2
  /\ Len(notifications) >= 2
  /\ notifications[1] # notifications[2]
  /\ filteredNotifications = notifications

\* ---- C2
\* History filter, acknowledgement state "pending", other criteria at their
\* defaults: a notification is listed exactly when it requires acknowledgement
\* and its acknowledged count is strictly less than its recipient count.
OnlyAckFilter(ack) ==
  CurrentCriteria = Criteria(<<>>, "all", <<>>, ack, None, None)

C2_PendingIsLessThan ==
  OnlyAckFilter("pending") =>
    filteredNotifications =
      SelectSeq(notifications,
                LAMBDA n : /\ n.requiresAcknowledgement
                           /\ ackCountOf(n) < Len(n.recipients))

\* ---- reading CSV text back (RFC 4180): the entries a consumer of the file sees
\* A quote opens or closes a quoted field, or is half of a doubled quote inside
\* one: a character is outside every quoted field when an even number of
\* quotes precedes it.
QuotesBefore(text, i) == Cardinality({ j \in 1..(i - 1) : text[j] = Quote })

\* The k-th smallest element of a set of positions.
Nth(positions, k) ==
  CHOOSE p \in positions : Cardinality({ q \in positions : q < p }) = k - 1

\* The pieces of text between the separators that stand outside quoted fields.
SplitOutside(text, sep) ==
  LET cuts == { i \in 1..Len(text) : text[i] = sep /\ QuotesBefore(text, i) % 2 = 0 }
      cut(k) == IF k = 0 THEN 0
                ELSE IF k > Cardinality(cuts) THEN Len(text) + 1
                ELSE Nth(cuts, k)
  IN  [k \in 1..(Cardinality(cuts) + 1) |-> SubSeq(text, cut(k - 1) + 1, cut(k) - 1)]

\* A field as written -> its value: an unquoted field is its own value; a
\* quoted one loses the enclosing quotes and the second quote of every pair.
Unquote(field) ==
  IF field # <<>> /\ field[1] = Quote
  THEN LET inner == SubSeq(field, 2, Len(field) - 1)
           kept == { j \in 1..Len(inner) :
                       inner[j] # Quote \/ QuotesBefore(inner, j) % 2 = 0 }
       IN  [k \in 1..Cardinality(kept) |-> inner[Nth(kept, k)]]
  ELSE field

ParseCSV(text) ==
  LET lines == SplitOutside(text, Newline)
  IN  [r \in 1..Len(lines) |->
        LET fields == SplitOutside(lines[r], Comma)
        IN  [f \in 1..Len(fields) |-> Unquote(fields[f])]]

Exported == download[1].notification
ExportedEntries == ParseCSV(download[1].content)

Unmatched(n) ==
  { i \in 1..Len(n.acknowledgementResponses) :
      ~arrayIncludes(n.recipients, n.acknowledgementResponses[i].recipientName) }

\* ---- C3
\* CSV export, unmatched responses (as claimed): a response whose recipientName
\* is not in the recipient list appears in the CSV text as an extra entry.
C3_UnmatchedIncluded ==
  download # None =>
    \A i \in Unmatched(Exported) :
      \E k \in 2..Len(ExportedEntries) :
        ExportedEntries[k][1] = Exported.acknowledgementResponses[i].recipientName

\* CSV export, unmatched responses (as amended): such a response has no entry
\* in the CSV text; the text holds the header and one entry per recipient, and
\* the export completes (the file is offered and the toast raised).
C3_UnmatchedOmitted ==
  download # None =>
    /\ hToast = Some("CSV Downloaded")
    /\ Len(ExportedEntries) = 1 + Len(Exported.recipients)
    /\ \A i \in Unmatched(Exported) :
         \A k \in 2..Len(ExportedEntries) :
           ExportedEntries[k][1] # Exported.acknowledgementResponses[i].recipientName

\* An export of a notification with a recipient and a response naming nobody
\* on the list.
C3_Witness ==
  /\ download # None
  /\ Unmatched(Exported) # {}
  /\ Len(Exported.recipients) >= 1

\* ---- reading a "yyyy-MM-dd HH:mm:ss" field back into a time value
DigitValue(c) == (CHOOSE k \in 1..Len(Digits) : Digits[k] = c) - 1

IsDigit(c) == \E k \in 1..Len(Digits) : Digits[k] = c

Num2(f, i) == 10 * DigitValue(f[i]) + DigitValue(f[i + 1])

daysFromCivil(y, m, d) ==
  LET yy == IF m <= 2 THEN y - 1 ELSE y
      era == yy \div 400
      yoe == yy - era * 400
      doy == (153 * (IF m > 2 THEN m - 3 ELSE m + 9) + 2) \div 5 + d - 1
      doe == yoe * 365 + yoe \div 4 - yoe \div 100 + doy
  IN  era * 146097 + doe - 719468

IsDateTimeField(f) ==
  /\ Len(f) = 19
  /\ f[5] = "-" /\ f[8] = "-" /\ f[11] = " " /\ f[14] = ":" /\ f[17] = ":"
  /\ \A i \in (1..19) \ {5, 8, 11, 14, 17} : IsDigit(f[i])

ReadDateTime(f) ==
  (daysFromCivil(100 * Num2(f, 1) + Num2(f, 3), Num2(f, 6), Num2(f, 9)) - OriginDay)
      * DayMs
    + 1000 * (3600 * Num2(f, 12) + 60 * Num2(f, 15) + Num2(f, 18))

\* ---- C4
\* CSV export, row structure: the text is the fixed header row followed by
\* exactly one row per entry of the recipient list, in list order; a recipient
\* with a response gets (name, "Responded", selected option, comment or empty,
\* response time to the second), one without gets (name, "Pending", "", "", "").
C4_Header == <<<<"R","e","c","i","p","i","e","n","t">>, <<"S","t","a","t","u","s">>, <<"R","e","s","p","o","n","s","e">>, <<"C","o","m","m","e","n","t","s">>, <<"R","e","s","p","o","n","s","e"," ","T","i","m","e">>>>

ResponsesOf(n, name) ==
  { k \in 1..Len(n.acknowledgementResponses) :
      n.acknowledgementResponses[k].recipientName = name }

C4_RowStructure ==
  download # None =>
    LET n == Exported
        entries == ExportedEntries
    IN  /\ entries[1] = C4_Header
        /\ Len(entries) = 1 + Len(n.recipients)
        /\ \A i \in 1..Len(n.recipients) :
             LET row == entries[i + 1]
                 name == n.recipients[i]
             IN  IF ResponsesOf(n, name) = {}
                 THEN row = <<name, <<"P","e","n","d","i","n","g">>, <<>>, <<>>, <<>>>>
                 ELSE \E k \in ResponsesOf(n, name) :
                        LET r == n.acknowledgementResponses[k]
                        IN  /\ Len(row) = 5
                            /\ row[1] = name
                            /\ row[2] = <<"R","e","s","p","o","n","d","e","d">>
                            /\ row[3] = r.selectedOption
                            /\ row[4] = (IF r.comment = None THEN <<>> ELSE r.comment[1])
                            /\ IsDateTimeField(row[5])
                            /\ ReadDateTime(row[5]) = r.respondedAt - (r.respondedAt % 1000)

\* An export with a recipient who responded, with a comment that needs
\* quoting, and a recipient who did not.
C4_Witness ==
  /\ download # None
  /\ Len(Exported.recipients) = 2
  /\ \E i, j \in 1..2 :
       /\ ResponsesOf(Exported, Exported.recipients[i]) = {}
       /\ \E k \in ResponsesOf(Exported, Exported.recipients[j]) :
            /\ Exported.acknowledgementResponses[k].comment # None
            /\ includes(Exported.acknowledgementResponses[k].comment[1], <<Quote>>)

\* ---- C5
\* CSV field escaping: a value with a comma, a double quote or a newline is
\* emitted wrapped in double quotes with every inner double quote doubled; any
\* other value is emitted unchanged.  Need, "more" info is emitted as
\* "Need, ""more"" info".
NeedsQuoting(v) ==
  \E i \in 1..Len(v) : v[i] = Comma \/ v[i] = Quote \/ v[i] = Newline

C5_NeedMoreInfoEscaped == <<Quote,"N","e","e","d",Comma," ",Quote,Quote,"m","o","r","e",Quote,Quote," ","i","n","f","o",Quote>>

C5_Escaping ==
  escOut # None =>
    LET v == escValue
        e == escOut[1]
    IN  /\ NeedsQuoting(v) =>
             /\ Len(e) = Len(v) + 2 + QuotesBefore(v, Len(v) + 1)
             /\ e[1] = Quote /\ e[Len(e)] = Quote
             /\ Unquote(e) = v
             /\ \A j \in 2..(Len(e) - 1) :
                  e[j] = Quote => (e[j - 1] = Quote /\ j > 2) \/ (e[j + 1] = Quote /\ j + 1 < Len(e))
        /\ ~NeedsQuoting(v) => e = v
        /\ v = NeedMoreInfo => e = C5_NeedMoreInfoEscaped

C5_Witness ==
  /\ escValue = NeedMoreInfo
  /\ escOut = Some(C5_NeedMoreInfoEscaped)

\* ---- C6
\* Draft list bound and order: from an empty stored list, after any saves and
\* deletions the list holds at most 10 drafts, a later save before an earlier
\* one; with no deletion it is exactly the latest saves, newest first, so that
\* 11 saves in a row leave saves 11 down to 2 and drop the first.
Smaller(a, b) == IF a < b THEN a ELSE b

C6_DraftsBoundedNewestFirst ==
  /\ drafts.type = "array"
  /\ Len(drafts.items) <= 10
  /\ \A i, j \in 1..Len(drafts.items) :
       i < j => drafts.items[i].seq > drafts.items[j].seq
  /\ deletes = 0 =>
       /\ Len(drafts.items) = Smaller(10, nextSeq - 1)
       /\ \A k \in 1..Len(drafts.items) : drafts.items[k].seq = nextSeq - k

\* Eleven saves in a row: ten drafts, the oldest one kept is the second save.
C6_Witness ==
  /\ nextSeq = 12
  /\ deletes = 0
  /\ Len(drafts.items) = 10
  /\ drafts.items[1].seq = 11
  /\ drafts.items[10].seq = 2

\* ---- C7
\* Submit validation gate: a step that calls onSend starts in a state where
\* the title is non-empty, a channel and a recipient are selected, every
\* selected channel has non-empty content and, for a scheduled delivery of
\* the scheduled variant, a date is selected.
GateOpen ==
  /\ title # <<>>
  /\ Len(channels) >= 1
  /\ Len(selectedRecipients) >= 1
  /\ \A i \in 1..Len(channels) : channelMessages[channels[i]].content # <<>>
  /\ (variant = "scheduled" /\ deliveryType = "scheduled") => scheduledDate # None

C7_SendOnlyThroughGate == [][onSendCalls' # <<>> => GateOpen]_vars

\* A notification has just been sent on two channels.
C7_Witness ==
  /\ onSendCalls # <<>>
  /\ Len(onSendCalls[1].channels) = 2
  /\ title = <<>>

\* ---- C8
\* Rejected operations change nothing: a step that ends in the toast of a
\* failed submit or of a refused save leaves every form field, the draft list
\* and the stored list as they were and calls onSend not at all.
RejectionToasts ==
  { Some("Missing Information"), Some("Schedule Required"), Some("Nothing to Save") }

C8_RejectedChangesNothing ==
  [][cToast' \in RejectionToasts =>
       /\ UNCHANGED <<fieldVars, drafts, storage>>
       /\ onSendCalls' = <<>>]_vars

\* A submit has just been refused for a form with a title, two channels and a
\* draft on the list.
C8_Witness ==
  /\ cToast = Some("Missing Information")
  /\ title # <<>>
  /\ Len(channels) = 2
  /\ Len(drafts.items) = 1

\* ---- C9
\* Successful submit: a step that calls onSend calls it once, with the title,
\* channels, recipient names and acknowledgement flag of the form, and leaves
\* the form in its initial state and the draft list as it was.
C9_SubmitSendsAndResets ==
  [][onSendCalls' # <<>> =>
       /\ Len(onSendCalls') = 1
       /\ onSendCalls'[1].title = title
       /\ onSendCalls'[1].channels = channels
       /\ Len(onSendCalls'[1].recipients) = Len(selectedRecipients)
       /\ \A i \in 1..Len(selectedRecipients) :
            onSendCalls'[1].recipients[i] = selectedRecipients[i].name
       /\ onSendCalls'[1].requiresAcknowledgement = requiresAcknowledgement
       /\ title' = <<>>
       /\ channels' = <<>>
       /\ channelMessages' = initialMessages
       /\ selectedRecipients' = <<>>
       /\ requiresAcknowledgement' = FALSE
       /\ deliveryType' = "immediate"
       /\ scheduledDate' = None
       /\ scheduledTime' = <<"0","9",":","0","0">>
       /\ UNCHANGED <<drafts, storage>>]_vars

\* ---- C10
\* Corrupt persisted drafts are discarded: while the stored item is anything
\* but a well-formed draft list (text that does not parse, or that parses to
\* something else), the draft list after mount is empty, the component is
\* alive and its handlers complete.
IllFormed(stored) ==
  /\ stored # None
  /\ ~(stored[1].kind = "json" /\ stored[1].value.type = "array")

C10_CorruptDiscarded ==
  (mounted /\ IllFormed(storage)) =>
    /\ drafts = JsArray(<<>>)
    /\ ~crashed
    /\ ~threw

\* ---- C11
\* Directory fetch degradation: one request is issued, at mount, and never a
\* second one; when it ends in a non-success status, a thrown error or a body
\* that is not an array the employee list is the empty list; and the loading
\* flag eventually becomes false and stays false.
FetchDegraded ==
  /\ fetchResponse # NoResponse
  /\ LET r == fetchResponse[1]
     IN  \/ r.settled = "rejected"
         \/ ~r.ok
         \/ r.body.kind # "json"
         \/ r.body.value.type # "array"

OneRequestAtMount ==
  /\ fetchRequests = (IF fetchPc = "start" THEN 0 ELSE 1)
  /\ (fetchPc = "start") => (fetchResponse = NoResponse /\ isLoading)

DegradedIsEmpty ==
  (fetchPc = "done" /\ FetchDegraded) => (employees = JsArray(<<>>) /\ ~isLoading)

C11_FetchDegradation ==
  /\ [](OneRequestAtMount /\ DegradedIsEmpty)
  /\ <>[](~isLoading)

\* A successful response whose body is JSON but no array has been read.
C11_Witness ==
  /\ fetchPc = "done"
  /\ fetchRequests = 1
  /\ fetchResponse # NoResponse
  /\ fetchResponse[1].ok
  /\ fetchResponse[1].body = JSONstringify(JsOther("object"))
  /\ employees = JsArray(<<>>)
  /\ ~isLoading

\* ---- C12
\* History filter, acknowledgement state "complete", other criteria at their
\* defaults: a notification is listed exactly when it requires acknowledgement
\* and its acknowledged count equals its recipient count.
C12_CompleteIsEqual ==
  OnlyAckFilter("complete") =>
    filteredNotifications =
      SelectSeq(notifications,
                LAMBDA n : /\ n.requiresAcknowledgement
                           /\ ackCountOf(n) = Len(n.recipients))

\* Of an over-acknowledged and a fully acknowledged notification the filter
\* lists the second only.
C12_Witness ==
  /\ OnlyAckFilter("complete")
  /\ Len(notifications) = 2
  /\ ackCountOf(notifications[1]) > Len(notifications[1].recipients)
  /\ notifications[1].requiresAcknowledgement
  /\ filteredNotifications = <<notifications[2]>>

\* ---- C13
\* History filter, acknowledgement state "overdue", other criteria at their
\* defaults: a notification is listed exactly when it has a deadline, the
\* deadline is earlier than the time the filter reads, and its acknowledged
\* count is less than its recipient count, whatever requiresAcknowledgement is.
C13_OverdueIgnoresRequired ==
  OnlyAckFilter("overdue") =>
    filteredNotifications =
      SelectSeq(notifications,
                LAMBDA n : /\ n.deadline # None
                           /\ n.deadline[1] < hNow
                           /\ ackCountOf(n) < Len(n.recipients))

\* A notification that does not require acknowledgement is listed as overdue,
\* next to one whose deadline is still ahead.
C13_Witness ==
  /\ OnlyAckFilter("overdue")
  /\ Len(notifications) = 2
  /\ notifications[1].deadline # None
  /\ notifications[1].deadline[1] > hNow
  /\ ~notifications[2].requiresAcknowledgement
  /\ filteredNotifications = <<notifications[2]>>

\* ---- C14
\* History filter, acknowledgement states "required" and "not-required", other
\* criteria at their defaults: "required" lists exactly the notifications that
\* require acknowledgement, "not-required" exactly those that do not, and the
\* two results partition the list.
RequiredOnes ==
  FilterNotifications(notifications,
                      Criteria(<<>>, "all", <<>>, "required", None, None), hNow)

NotRequiredOnes ==
  FilterNotifications(notifications,
                      Criteria(<<>>, "all", <<>>, "not-required", None, None), hNow)

C14_RequiredPartition ==
  /\ OnlyAckFilter("required") =>
       /\ filteredNotifications = RequiredOnes
       /\ filteredNotifications =
            SelectSeq(notifications, LAMBDA n : n.requiresAcknowledgement)
  /\ OnlyAckFilter("not-required") =>
       /\ filteredNotifications = NotRequiredOnes
       /\ filteredNotifications =
            SelectSeq(notifications, LAMBDA n : ~n.requiresAcknowledgement)
  /\ Len(RequiredOnes) + Len(NotRequiredOnes) = Len(notifications)
  /\ \A i \in 1..Len(notifications) :
       (\E j \in 1..Len(RequiredOnes) : RequiredOnes[j] = notifications[i])
         # (\E j \in 1..Len(NotRequiredOnes) : NotRequiredOnes[j] = notifications[i])

\* "not-required" lists the one notification of two that needs no
\* acknowledgement, although it carries a deadline.
C14_Witness ==
  /\ OnlyAckFilter("not-required")
  /\ Len(notifications) = 2
  /\ notifications[1].requiresAcknowledgement
  /\ notifications[2].deadline # None
  /\ filteredNotifications = <<notifications[2]>>

\* ---- C15
\* History filter, status: with a status filter other than "all" and every
\* other criterion at its default, the result is the sub-sequence of the
\* notifications whose status is the selected one, in input order; it is the
\* whole list when every notification has that status.
OnlyStatusFilter ==
  /\ statusFilter # "all"
  /\ searchQuery = <<>> /\ channelFilters = <<>> /\ ackFilter = "all"
  /\ dateFrom = None /\ dateTo = None

C15_StatusSelects ==
  OnlyStatusFilter =>
    /\ filteredNotifications =
         SelectSeq(notifications, LAMBDA n : n.status = statusFilter)
    /\ (\A i \in 1..Len(notifications) : notifications[i].status = statusFilter)
         => filteredNotifications = notifications

\* Status "failed" lists the second of two notifications only.
C15_Witness ==
  /\ OnlyStatusFilter
  /\ statusFilter = "failed"
  /\ Len(notifications) = 2
  /\ notifications[1].status = "sent"
  /\ filteredNotifications = <<notifications[2]>>

\* ---- C16
\* History filter, date range: a listed notification was sent on or after the
\* from-day and on or before the to-day, whenever that bound is set; with only
\* the dates set and from = to = day D the result is exactly the notifications
\* sent within calendar day D.
DayOf(t) == t \div DayMs

OnlySameDay ==
  /\ dateFrom # None /\ dateTo = dateFrom
  /\ searchQuery = <<>> /\ statusFilter = "all" /\ channelFilters = <<>>
  /\ ackFilter = "all"

C16_DateRangeInclusive ==
  /\ \A i \in 1..Len(filteredNotifications) :
       /\ dateFrom # None => DayOf(filteredNotifications[i].sentAt) >= DayOf(dateFrom[1])
       /\ dateTo # None => DayOf(filteredNotifications[i].sentAt) <= DayOf(dateTo[1])
  /\ OnlySameDay =>
       filteredNotifications =
         SelectSeq(notifications, LAMBDA n : DayOf(n.sentAt) = DayOf(dateFrom[1]))

\* Day D as both bounds: of two notifications sent one millisecond apart, in
\* the last millisecond of D and the first of the next day, the first is
\* listed.
C16_Witness ==
  /\ OnlySameDay
  /\ Len(notifications) = 2
  /\ notifications[1].sentAt = DayOf(dateFrom[1]) * DayMs + DayMs - 1
  /\ notifications[2].sentAt = notifications[1].sentAt + 1
  /\ filteredNotifications = <<notifications[1]>>

\* ---- C17
\* The history filter is idempotent and order-preserving: under every setting
\* of the criteria the result is a sub-sequence of the notification list,
\* filtering the result again gives the result, and no step changes the
\* notification list.
IsSubSequence(a, b) ==
  \E f \in [1..Len(a) -> 1..Len(b)] :
    /\ \A i, j \in 1..Len(a) : i < j => f[i] < f[j]
    /\ \A i \in 1..Len(a) : a[i] = b[f[i]]

C17_IdempotentOrdered ==
  /\ [](/\ IsSubSequence(filteredNotifications, notifications)
        /\ FilterNotifications(filteredNotifications, CurrentCriteria, hNow)
             = filteredNotifications)
  /\ [][notifications' = notifications]_vars

\* Two criteria are set and both of two different notifications are listed.
C17_Witness ==
  /\ ActiveFilters = 2
  /\ Len(notifications) = 2
  /\ notifications[1] # notifications[2]
  /\ filteredNotifications = notifications

\* ---- C18
\* History filter, text search: with a non-empty search text and every other
\* criterion at its default, a notification is listed exactly when the
\* lower-cased text occurs in its lower-cased title or lower-cased message.
OnlySearch ==
  /\ searchQuery # <<>>
  /\ statusFilter = "all" /\ channelFilters = <<>> /\ ackFilter = "all"
  /\ dateFrom = None /\ dateTo = None

OccursIn(part, whole) ==
  \E k \in 0..(Len(whole) - Len(part)) :
    \A i \in 1..Len(part) : whole[k + i] = part[i]

C18_SearchIgnoresCase ==
  OnlySearch =>
    filteredNotifications =
      SelectSeq(notifications,
                LAMBDA n : \/ OccursIn(toLowerCase(searchQuery), toLowerCase(n.title))
                           \/ OccursIn(toLowerCase(searchQuery), toLowerCase(n.message)))

\* An upper-case search text finds the lower-case letter in the title of the
\* second of two notifications.
C18_Witness ==
  /\ OnlySearch
  /\ searchQuery = <<"L">>
  /\ Len(notifications) = 2
  /\ filteredNotifications = <<notifications[2]>>
  /\ OccursIn(<<"l">>, notifications[2].title)

\* ---- C19
\* History filter, channels: with a non-empty channel selection and every
\* other criterion at its default, a notification is listed exactly when one
\* of its channels is selected; the selection holds no channel twice.
OnlyChannels ==
  /\ channelFilters # <<>>
  /\ searchQuery = <<>> /\ statusFilter = "all" /\ ackFilter = "all"
  /\ dateFrom = None /\ dateTo = None

C19_ChannelsUnion ==
  /\ \A i, j \in 1..Len(channelFilters) :
       i # j => channelFilters[i] # channelFilters[j]
  /\ OnlyChannels =>
       filteredNotifications =
         SelectSeq(notifications,
                   LAMBDA n : \E i \in 1..Len(n.channels), j \in 1..Len(channelFilters) :
                                n.channels[i] = channelFilters[j])

\* Two channels are selected; the notification listed has one of them only.
C19_Witness ==
  /\ OnlyChannels
  /\ Len(channelFilters) = 2
  /\ Len(notifications) = 2
  /\ filteredNotifications = <<notifications[2]>>
  /\ \E j \in 1..2 : ~arrayIncludes(notifications[2].channels, channelFilters[j])

\* ---- C20
\* Persisted drafts mirror the in-memory list: the draft list is taken from
\* the stored item at mount only; a step that saves or deletes a draft leaves
\* the stored list equal to the in-memory list; and no other step (load
\* draft, submit, field edit, test send) writes the stored item.
SavedOrDeleted == { Some("Draft Saved"), Some("Draft Deleted") }

StoredMirrorsDrafts ==
  /\ storage # None
  /\ storage[1].kind = "json"
  /\ storage[1].value = drafts

C20_StoredMirror ==
  /\ [][/\ cToast' \in SavedOrDeleted => StoredMirrorsDrafts'
        /\ storage' # storage => cToast' \in SavedOrDeleted
        /\ drafts' # drafts => (cToast' \in SavedOrDeleted \/ (~mounted /\ mounted'))
        /\ mounted => mounted']_vars
  /\ [](mounted => (StoredMirrorsDrafts \/ (storage = None /\ drafts = JsArray(<<>>))))

\* A deletion has left one draft of two, the stored one and a saved one, in
\* memory and in the stored item, and a test send has since completed.
C20_Witness ==
  /\ deletes = 1
  /\ nextSeq = 2
  /\ Len(drafts.items) = 1
  /\ StoredMirrorsDrafts
  /\ cToast \in { Some("Test Email Sent"), Some("Test Notification Sent") }

\* ---- C21
\* Mock test sends do not overlap: at most one test send waits on its timer,
\* none is started while isSendingTest is true, and a test send that has been
\* started eventually sets isSendingTest back to false, whatever other form
\* events come in between.
C21_TestSendsDoNotOverlap ==
  /\ [](testTimers <= 1 /\ (isSendingTest <=> testTimers = 1))
  /\ [][isSendingTest => testTimers' <= testTimers]_vars
  /\ (isSendingTest ~> ~isSendingTest)

\* A test send waits on its timer after the form it was started from has been
\* submitted.
C21_Witness ==
  /\ isSendingTest
  /\ testTimers = 1
  /\ onSendCalls # <<>>
  /\ channels = <<>>

\* C22: the name of the downloaded file is the notification's title with every
\* character other than an ASCII letter or digit replaced, position for
\* position, by an underscore, followed by "_responses.csv"; letters and
\* digits keep their position and case.
AsciiLettersDigits ==
  { "a","b","c","d","e","f","g","h","i","j","k","l","m","n","o","p","q","r","s","t","u","v","w","x","y","z",
    "A","B","C","D","E","F","G","H","I","J","K","L","M","N","O","P","Q","R","S","T","U","V","W","X","Y","Z",
    "0","1","2","3","4","5","6","7","8","9" }

ResponsesSuffix == <<"_","r","e","s","p","o","n","s","e","s",".","c","s","v">>

C22_FileName ==
  download # None =>
    LET ttl == download[1].notification.title
        name == download[1].name
    IN /\ Len(name) = Len(ttl) + Len(ResponsesSuffix)
       /\ \A i \in 1..Len(ttl) :
            name[i] = IF ttl[i] \in AsciiLettersDigits THEN ttl[i] ELSE "_"
       /\ \A j \in 1..Len(ResponsesSuffix) : name[Len(ttl) + j] = ResponsesSuffix[j]

C22_Witness ==
  /\ download # None
  /\ download[1].notification.title = <<"Q","3"," ","&","x">>
  /\ download[1].name = <<"Q","3","_","_","x">> \o ResponsesSuffix

C22_WitnessNonAscii ==
  /\ download # None
  /\ download[1].notification.title = <<"é","Z","_","9",".">>
  /\ download[1].name = <<"_","Z","_","9","_">> \o ResponsesSuffix

\* C23: for the notification the detail modal shows, the modal offers the
\* reminder exactly when the notification's row does, and the two overdue
\* flags are equal.
C23_RowAgreesWithModal ==
  (isModalOpen /\ selectedNotification # None) =>
    LET n == selectedNotification[1]
    IN /\ rowNeedsReminder(n) <=> modalNeedsReminder(n)
       /\ rowIsOverdue(n, hNow) <=> modalIsOverdue(n, hNow)

\* C24: from the empty form, whatever SMS text is typed, fields inserted and
\* drafts saved and loaded, the SMS content is never longer than 160
\* characters; typing a text or inserting a field that would make it longer
\* leaves the content as it was.
TooLongSmsEdit ==
  \/ \E c \in SmsTexts : Len(c) > 160 /\ updateSmsContent(c)
  \/ \E f \in SmsFields :
       /\ Len(channelMessages.sms.content) + Len(f) + 4 > 160
       /\ insertPlaceholder("sms", f)

C24_SmsLength ==
  /\ [](Len(channelMessages.sms.content) <= 160)
  /\ [](\A i \in 1..Len(drafts.items) :
          Len(drafts.items[i].channelMessages.sms.content) <= 160)
  /\ [][TooLongSmsEdit => channelMessages' = channelMessages]_vars

C24_Witness ==
  /\ Len(channelMessages.sms.content) = 160
  /\ channelMessages.sms.content[160] = "}"
  /\ drafts.items # <<>>
  /\ Len(drafts.items[1].channelMessages.sms.content) = 150

\* C25: in the scheduled-delivery variant, every notification handed to the
\* send callback with requiresAcknowledgement true has email or portal among
\* its channels.
C25_AckOnlyWithEmailOrPortal ==
  variant = "scheduled" =>
    \A k \in 1..Len(onSendCalls) :
      onSendCalls[k].requiresAcknowledgement =>
        \/ arrayIncludes(onSendCalls[k].channels, "email")
        \/ arrayIncludes(onSendCalls[k].channels, "portal")

\* C26: no two drafts of the list have the same id, and deleting a draft
\* removes exactly one draft, the others staying in their relative order.
DraftIdsUnique ==
  \A i, j \in 1..Len(drafts.items) :
    drafts.items[i].id = drafts.items[j].id => i = j

DeleteRemovesOne ==
  deletes' = deletes + 1 =>
    \E i \in 1..Len(drafts.items) :
      drafts'.items = SubSeq(drafts.items, 1, i - 1)
                        \o SubSeq(drafts.items, i + 1, Len(drafts.items))

C26_DraftIdentity == []DraftIdsUnique /\ [][DeleteRemovesOne]_vars

\* C27: no two selected recipients have the same id; addAllFiltered keeps the
\* selection it found as the front of the new one, in order, appends only
\* filtered employees that were not selected, and a second application
\* changes nothing.
SelectedIdsUnique ==
  \A i, j \in 1..Len(selectedRecipients) :
    selectedRecipients[i].id = selectedRecipients[j].id => i = j

AddAllAppendsUnselected ==
  /\ Len(selectedRecipients') >= Len(selectedRecipients)
  /\ SubSeq(selectedRecipients', 1, Len(selectedRecipients)) = selectedRecipients
  /\ \A k \in (Len(selectedRecipients) + 1)..Len(selectedRecipients') :
       /\ \E i \in 1..Len(filteredEmployees) : filteredEmployees[i] = selectedRecipients'[k]
       /\ ~\E i \in 1..Len(selectedRecipients) :
             selectedRecipients[i].id = selectedRecipients'[k].id
  /\ \A i \in 1..Len(filteredEmployees) :
       \E k \in 1..Len(selectedRecipients') :
         selectedRecipients'[k].id = filteredEmployees[i].id

AddAllIdempotent ==
  pushMissing(selectedRecipients', filteredEmployees') = selectedRecipients'

C27_SelectionWithoutDuplicates ==
  /\ []SelectedIdsUnique
  /\ [][addAllFiltered => AddAllAppendsUnselected /\ AddAllIdempotent]_vars

C27_Witness ==
  /\ employees.items = <<Nurse1, Admin2, NurseTwin>>
  /\ selectedRecipients = <<Admin2, Nurse1>>
  /\ search = <<>> /\ roleFilter = "All" /\ selectorStatusFilter = "All"

\* C28: a save puts at the head of the list a draft holding the form's
\* channels, message texts, recipients and acknowledgement flag, its title or
\* "Untitled Draft" for an empty one, and no attachments; a draft in the list
\* never changes; loading a draft sets those fields of the form to the
\* draft's, leaves the form without attachments, and changes neither the
\* draft list nor the stored list.
SaveSnapshotsForm ==
  nextSeq' = nextSeq + 1 =>
    LET d == drafts'.items[1]
    IN /\ d.seq = nextSeq
       /\ d.channels = channels
       /\ d.channelMessages.email.content = channelMessages.email.content
       /\ d.channelMessages.portal.content = channelMessages.portal.content
       /\ d.channelMessages.sms.content = channelMessages.sms.content
       /\ d.recipients = selectedRecipients
       /\ d.requiresAcknowledgement = requiresAcknowledgement
       /\ d.title = IF title = <<>> THEN UntitledDraft ELSE title
       /\ d.channelMessages.email.attachments = <<>>
       /\ d.channelMessages.portal.attachments = <<>>

DraftsNeverChange ==
  \A i \in 1..Len(drafts'.items) :
    (\E j \in 1..Len(drafts.items) : drafts.items[j].seq = drafts'.items[i].seq) =>
      \E j \in 1..Len(drafts.items) : drafts.items[j] = drafts'.items[i]

LoadRestoresDraft ==
  (cToast' = Some("Draft Loaded")) =>
    /\ \E i \in 1..Len(drafts.items) :
         LET d == drafts.items[i]
         IN /\ channels' = d.channels
            /\ channelMessages'.email.content = d.channelMessages.email.content
            /\ channelMessages'.portal.content = d.channelMessages.portal.content
            /\ channelMessages'.sms.content = d.channelMessages.sms.content
            /\ selectedRecipients' = d.recipients
            /\ requiresAcknowledgement' = d.requiresAcknowledgement
            /\ title' = d.title
    /\ channelMessages'.email.attachments = <<>>
    /\ channelMessages'.portal.attachments = <<>>
    /\ drafts' = drafts
    /\ storage' = storage

C28_SaveLoadRoundTrip ==
  [][SaveSnapshotsForm /\ DraftsNeverChange /\ LoadRestoresDraft]_vars

C28_Witness ==
  /\ cToast = Some("Draft Loaded")
  /\ title = UntitledDraft
  /\ channels = <<"email">>
  /\ channelMessages.email = [content |-> <<"m">>, attachments |-> <<>>]
  /\ selectedRecipients = <<Emp1>>
  /\ requiresAcknowledgement

\* C29: while a channel is selected exactly one editor is displayed and it is
\* the editor of a selected channel; when a toggle deselects the channel
\* whose editor was displayed and channels remain, the editor displayed next
\* is the first selected channel's.
OneEditorOfSelectedChannel ==
  channels # <<>> =>
    /\ Cardinality(shownEditors) = 1
    /\ \A t \in shownEditors : arrayIncludes(channels, t)

FallsBackToFirst ==
  \A t \in shownEditors :
    (~arrayIncludes(channels', t) /\ channels' # <<>>) =>
      shownEditors' = { channels'[1] }

C29_ActiveTab == []OneEditorOfSelectedChannel /\ [][FallsBackToFirst]_vars

C29_Witness ==
  /\ channels = <<"email", "portal">>
  /\ activeTab = "sms"
  /\ shownEditors = {"email"}

\* C30: the CSV text has one data row per entry of the recipient list, also
\* when a name occurs several times in the list or in the responses; the row
\* of a recipient with several responses shows the option, comment and time
\* of the last of them in list order.
LastResponseOf(n, name) ==
  n.acknowledgementResponses[CHOOSE k \in ResponsesOf(n, name) :
                               \A j \in ResponsesOf(n, name) : j <= k]

C30_RepeatedResponses ==
  download # None =>
    LET n == Exported
        entries == ExportedEntries
    IN  /\ Len(entries) - 1 = Len(n.recipients)
        /\ \A i \in 1..Len(n.recipients) :
             LET name == n.recipients[i]
                 row == entries[i + 1]
             IN  /\ row[1] = name
                 /\ ResponsesOf(n, name) # {} =>
                      LET r == LastResponseOf(n, name)
                      IN  /\ row[3] = r.selectedOption
                          /\ row[4] = (IF r.comment = None THEN <<>> ELSE r.comment[1])
                          /\ ReadDateTime(row[5]) = r.respondedAt - (r.respondedAt % 1000)

C30_Witness ==
  /\ download # None
  /\ Exported.recipients = <<Alice, Alice>>
  /\ Len(Exported.acknowledgementResponses) = 2
  /\ Cardinality(ResponsesOf(Exported, Alice)) = 2
  /\ Exported.acknowledgementResponses[1].selectedOption
       # Exported.acknowledgementResponses[2].selectedOption

====
